---- MODULE Spec2Model ----
(***************************************************************************)
(* Model of the Web Push delivery dispatcher of cloudnotifiarr:            *)
(* sendPushToAll / processSubscription / sendPush and                      *)
(* sendNotificationToSubscription (src/src/push.ts), over the D1           *)
(* subscription store (db.ts in src/unnamed/part_000, src/src/queries.ts). *)
(***************************************************************************)
EXTENDS Integers, Sequences, FiniteSets, TLC

\* ---------------------------------------------------------------- bounds
NumEndpoints == 3

Endpoints == 1..NumEndpoints

\* HTTP statuses a push service answers with (200/201 accepted, 204 another
\* 2xx, 410 gone, 500 any other failure)
Statuses == {200, 201, 204, 410, 500}

\* Response bodies read by result.text()
Bodies == {"", "gone"}

VARIABLES
    store,       \* subscriptions table: endpoint -> row
    keyOk,       \* env.VAPID_PRIVATE_KEY imports as a PKCS8 P-256 key
    now,         \* Date.now(), in milliseconds
    contact,     \* env.CONTACT_EMAIL, as a sequence of characters
    http,        \* the request the router is serving and how it settled
    apc,         \* sendPushToAll: "idle" | "fanout" | "resolved" | "rejected"
    listing,     \* how the run's listing query ended: "none" | "rows" | "error"
    listed,      \* rows returned by getActiveSubscriptions for this run
    tpc,         \* processSubscription position per listed endpoint
    outcome,     \* what the task met: NoOutcome | Exception | Status(s)
    ret,         \* promise of processSubscription: "pending"|"true"|"false"|"rejected"
    imported,    \* importVapidPrivateKey calls per endpoint in this run
    signed,      \* tokens createVapidJwt signed per endpoint in this run
    posts,       \* fetch() POSTs per endpoint in this run
    deactCalls,  \* deactivateSubscription calls per endpoint made by this run
    aResult,     \* value sendPushToAll resolved with
    opc,         \* sendNotificationToSubscription position
    oEndpoint,   \* its endpoint argument (0 when idle)
    oFound,      \* what its lookup returned: "none" | "row" | "null"
    oOutcome,    \* what its single delivery met
    oSigned,     \* createVapidJwt calls it made
    oPosts,      \* POSTs it issued
    oDeact,      \* deactivateSubscription calls it made
    oResult,     \* value it resolved with
    rng,         \* values drawn so far from the platform's random source
    wire,        \* URL, audience, salt and key id of every request sendPush made
    last,        \* the latest sendPush call: its inputs and what it produced
    args         \* the payload string and the first subscription sendPush is given

vars == <<store, keyOk, now, contact, http, apc, listing, listed, tpc, outcome, ret,
          imported, signed, posts, deactCalls, aResult, opc, oEndpoint, oFound,
          oOutcome, oSigned, oPosts, oDeact, oResult, rng, wire, last, args>>

bindings == <<keyOk, now, contact>>
envVars == <<bindings, http>>
allVars == <<apc, listing, listed, tpc, outcome, ret, imported, signed, posts,
            deactCalls, aResult>>
oneVars == <<opc, oEndpoint, oFound, oOutcome, oSigned, oPosts, oDeact, oResult>>
dataVars == <<rng, wire, last, args>>

NoResult == [kind |-> "none"]
ErrorThrown == [kind |-> "error"]

\* what one delivery met: nothing yet, a thrown exception, or a response status
NoOutcome == [kind |-> "none", status |-> 0]
Exception == [kind |-> "exc", status |-> 0]
Status(s) == [kind |-> "status", status |-> s]

\* ----------------------------------------------------------------- store
\* a nullable number: expirationTime and the expiration_time column
Null == [null |-> TRUE, value |-> 0]

Time(t) == [null |-> FALSE, value |-> t]

\* no row for the endpoint
AbsentRow ==
    [present |-> FALSE, active |-> 0, p256dh |-> "", auth |-> "",
     expiration_time |-> Null]

\* a variant whose conflict clause only sets active = 1
SAVE_SUBSCRIPTION_KeepFirst(db, row) ==
    IF db[row.endpoint].present
    THEN [db EXCEPT ![row.endpoint].active = 1]
    ELSE [db EXCEPT ![row.endpoint] =
            [present |-> TRUE, active |-> 1, p256dh |-> row.p256dh,
             auth |-> row.auth, expiration_time |-> row.expiration_time]]

\* queries.ts SAVE_SUBSCRIPTION: insert, or on conflict update p256dh, auth
\* and expiration_time and set active = 1; row holds the bound values
SAVE_SUBSCRIPTION(db, row) ==
    IF db[row.endpoint].present
    THEN [db EXCEPT ![row.endpoint].p256dh = row.p256dh,
                    ![row.endpoint].auth = row.auth,
                    ![row.endpoint].expiration_time = row.expiration_time,
                    ![row.endpoint].active = 1]
    ELSE [db EXCEPT ![row.endpoint] =
            [present |-> TRUE, active |-> 1, p256dh |-> row.p256dh,
             auth |-> row.auth, expiration_time |-> row.expiration_time]]

\* db.ts:29-46  saveSubscription binds endpoint, keys.p256dh, keys.auth
\* and expirationTime || null
saveSubscription(db, subscription) ==
    SAVE_SUBSCRIPTION(db,
        [endpoint |-> subscription.endpoint,
         p256dh |-> subscription.keys.p256dh,
         auth |-> subscription.keys.auth,
         expiration_time |->
             IF subscription.expirationTime.null
                \/ subscription.expirationTime.value = 0
             THEN Null ELSE subscription.expirationTime])

\* a variant that flips the flag of the row instead of clearing it
DEACTIVATE_SUBSCRIPTION_Toggle(db, e) ==
    IF db[e].present THEN [db EXCEPT ![e].active = 1 - @] ELSE db

\* queries.ts DEACTIVATE_SUBSCRIPTION: UPDATE ... SET active = 0 WHERE endpoint = ?
DEACTIVATE_SUBSCRIPTION(db, e) ==
    IF db[e].present THEN [db EXCEPT ![e].active = 0] ELSE db

\* a variant without the WHERE clause
GET_ACTIVE_SUBSCRIPTIONS_All(db) == {e \in Endpoints : db[e].present}

\* queries.ts GET_ACTIVE_SUBSCRIPTIONS: SELECT ... WHERE active = 1
GET_ACTIVE_SUBSCRIPTIONS(db) == {e \in Endpoints : db[e].present /\ db[e].active = 1}

\* queries.ts GET_SUBSCRIPTION_BY_ENDPOINT: WHERE endpoint = ? AND active = 1
GET_SUBSCRIPTION_BY_ENDPOINT(db, e) == db[e].present /\ db[e].active = 1

\* variant: a failing query is swallowed and read as no rows
getActiveSubscriptionsSwallow(db, ok) ==
    IF ok THEN [err |-> FALSE, rows |-> GET_ACTIVE_SUBSCRIPTIONS(db)]
          ELSE [err |-> FALSE, rows |-> {}]

\* db.ts getActiveSubscriptions: awaits the query; a failing query throws,
\* otherwise the rows (or [] when results is missing) are returned
getActiveSubscriptions(db, ok) ==
    IF ok THEN [err |-> FALSE, rows |-> GET_ACTIVE_SUBSCRIPTIONS(db)]
          ELSE [err |-> TRUE, rows |-> {}]

\* db.ts getSubscriptionByEndpoint: first() row or null
getSubscriptionByEndpoint(db, e) == GET_SUBSCRIPTION_BY_ENDPOINT(db, e)

\* rows in table order (endpoint ids stand for rowids)
RECURSIVE RowsInOrder(_)
RowsInOrder(S) ==
    IF S = {} THEN <<>>
    ELSE LET m == CHOOSE x \in S : \A y \in S : x <= y
         IN <<m>> \o RowsInOrder(S \ {m})

SeqRange(q) == {q[i] : i \in 1..Len(q)}

\* ------------------------------------------------- processSubscription
\* variant: every 2xx accepted (result.ok in place of the 200/201 test)
IsSuccessStatusOk(s) == s >= 200 /\ s < 300

\* push.ts:57  result.status === 200 || result.status === 201
IsSuccessStatus(s) == s = 200 \/ s = 201

\* variant: every client or server error treated as gone
IsGoneStatusAnyError(s) == s >= 400

\* push.ts:61  result.status === 410
IsGoneStatus(s) == s = 410

\* variant: the catch block rethrows, so the task's promise rejects
CatchResultRethrow == "rejected"

\* push.ts:70-73  catch (error) { console.error(...); return false; }
CatchResult == "false"

\* variant: on a status that is neither accepted nor gone the task goes on
\* waiting for another answer
AfterStatusWaitOn(s) ==
    IF IsSuccessStatus(s) THEN "done"
    ELSE IF IsGoneStatus(s) THEN "deact"
    ELSE "wait"

\* variant: a status that is neither accepted nor gone is sent again
AfterStatusRetry(s) ==
    IF IsSuccessStatus(s) THEN "done"
    ELSE IF IsGoneStatus(s) THEN "deact"
    ELSE "post"

\* push.ts:57-69  what processSubscription does next with a response status
AfterStatus(s) ==
    IF IsSuccessStatus(s) THEN "done"
    ELSE IF IsGoneStatus(s) THEN "deact"
    ELSE "body"

\* ------------------------------------------------------- sendPushToAll
\* variant: Promise.race, settled as soon as one input is
PromiseRace(rows, r) ==
    IF rows = <<>> THEN "fulfilled"
    ELSE IF \E i \in 1..Len(rows) : r[rows[i]] = "rejected" THEN "rejected"
    ELSE IF \E i \in 1..Len(rows) : r[rows[i]] \in {"true", "false"} THEN "fulfilled"
    ELSE "pending"

\* push.ts:30  Promise.all: rejects as soon as one input rejects, fulfils
\* when all inputs are fulfilled, pending otherwise
PromiseAll(rows, r) ==
    IF \E i \in 1..Len(rows) : r[rows[i]] = "rejected" THEN "rejected"
    ELSE IF \A i \in 1..Len(rows) : r[rows[i]] \in {"true", "false"} THEN "fulfilled"
    ELSE "pending"

\* variant: the else branch of the counting loop is missing
RECURSIVE TallyNoElse(_, _, _)
TallyNoElse(results, sent, failed) ==
    IF results = <<>> THEN [kind |-> "counts", sent |-> sent, failed |-> failed]
    ELSE IF Head(results) = "true"
         THEN TallyNoElse(Tail(results), sent + 1, failed)
         ELSE TallyNoElse(Tail(results), sent, failed)

\* push.ts:27-41  for (const success of results) if (success) sent++ else failed++
RECURSIVE Tally(_, _, _)
Tally(results, sent, failed) ==
    IF results = <<>> THEN [kind |-> "counts", sent |-> sent, failed |-> failed]
    ELSE IF Head(results) = "true"
         THEN Tally(Tail(results), sent + 1, failed)
         ELSE Tally(Tail(results), sent, failed + 1)

\* ------------------------------------- sendNotificationToSubscription
\* variant: a missing row reported like a thrown error
NotFoundAsError ==
    [kind |-> "outcome", success |-> FALSE, status |-> 500,
     statusText |-> "Subscription not found in DB"]

\* push.ts:127-134  the value returned when the lookup finds no row
NotFoundResult ==
    [kind |-> "outcome", success |-> FALSE, status |-> 404,
     statusText |-> "Subscription not found in DB"]

\* push.ts:167-171  the value returned for a response whose body was read
ResponseResult(s, text) ==
    [kind |-> "outcome", success |-> (s = 200 \/ s = 201), status |-> s,
     statusText |-> "statusText" \o (IF text # "" THEN " - " \o text ELSE "")]

\* push.ts:172-179  the value returned when sendPush or text() throws
ErrorResult ==
    [kind |-> "outcome", success |-> FALSE, status |-> 500,
     statusText |-> "error.message"]

\* ------------------------------------------------------------- strings
\* A string is the sequence of its characters.
includes(s, c) == \E i \in 1..Len(s) : s[i] = c

startsWith(s, prefix) ==
    /\ Len(s) >= Len(prefix)
    /\ SubSeq(s, 1, Len(prefix)) = prefix

MailtoPrefix == <<"m", "a", "i", "l", "t", "o", ":">>

HttpsPrefix == <<"h", "t", "t", "p", "s", ":", "/", "/">>

\* "user@example.com"
Address ==
    <<"u", "s", "e", "r", "@", "e", "x", "a", "m", "p", "l", "e", ".", "c",
      "o", "m">>

\* "example.com/contact"
ContactPage ==
    <<"e", "x", "a", "m", "p", "l", "e", ".", "c", "o", "m", "/", "c", "o",
      "n", "t", "a", "c", "t">>

\* values of env.CONTACT_EMAIL: an address, a mailto: URI, https URLs without
\* and with an "@", an address behind "https:" and behind "http://", a name
\* without "@", and the empty string
Subjects ==
    { Address,
      MailtoPrefix \o Address,
      HttpsPrefix \o ContactPage,
      HttpsPrefix \o Address,
      <<"h", "t", "t", "p", "s", ":">> \o Address,
      <<"h", "t", "t", "p", ":", "/", "/">> \o Address,
      <<"a", "d", "m", "i", "n">>,
      <<"a", "@", "b">>,
      <<>> }

\* readings of Date.now(), in milliseconds
Times == {0, 999, 1000, 86399999, 1700000123}

\* ---------------------------------------------------------------- VAPID
\* The endpoint of subscriber e as new URL(endpoint) parses it: subscribers
\* alternate between two push services, so two of them share an origin.
EndpointUrl(e) ==
    [protocol |-> "https:",
     host |-> IF e % 2 = 1 THEN "fcm.googleapis.com"
              ELSE "updates.push.services.mozilla.com",
     pathname |-> "/send/" \o ToString(e)]

\* a variant that computes the audience once, for the first subscriber
getAudienceShared(url) ==
    EndpointUrl(1).protocol \o "//" \o EndpointUrl(1).host

\* encryption.ts:393-396
getAudience(url) == url.protocol \o "//" \o url.host

SecondsPerDay == 86400

\* a variant that adds a day's seconds to the clock's milliseconds
createVapidJwtMillis(audience, subject, nowMs) ==
    [header |-> [alg |-> "ES256", typ |-> "JWT"],
     payload |-> [aud |-> audience,
                  sub |-> IF /\ includes(subject, "@")
                             /\ ~startsWith(subject, MailtoPrefix)
                             /\ ~startsWith(subject, HttpsPrefix)
                          THEN MailtoPrefix \o subject
                          ELSE subject,
                  exp |-> nowMs + SecondsPerDay]]

\* a variant that prepends "mailto:" to every subject that is no mailto: URI
createVapidJwtAlwaysMailto(audience, subject, nowMs) ==
    [header |-> [alg |-> "ES256", typ |-> "JWT"],
     payload |-> [aud |-> audience,
                  sub |-> IF ~startsWith(subject, MailtoPrefix)
                          THEN MailtoPrefix \o subject
                          ELSE subject,
                  exp |-> (nowMs \div 1000) + SecondsPerDay]]

\* encryption.ts:204-232  the claims of the token; nowMs is Date.now()
createVapidJwt(audience, subject, nowMs) ==
    [header |-> [alg |-> "ES256", typ |-> "JWT"],
     payload |-> [aud |-> audience,
                  sub |-> IF /\ includes(subject, "@")
                             /\ ~startsWith(subject, MailtoPrefix)
                             /\ ~startsWith(subject, HttpsPrefix)
                          THEN MailtoPrefix \o subject
                          ELSE subject,
                  exp |-> (nowMs \div 1000) + SecondsPerDay]]

\* no sendPush call has been made
NoCall == [kind |-> "none", call |-> 0]

\* ---------------------------------------------------------------- bytes
\* An ArrayBuffer or Uint8Array is the sequence of its bytes.
Repeat(x, n) == [i \in 1..n |-> x]

\* the len-byte big-endian form of n
BigEndian(n, len) ==
    [i \in 1..len |-> IF len - i > 3 THEN 0 ELSE (n \div (256 ^ (len - i))) % 256]

\* the number a big-endian byte string of at most four significant bytes holds
RECURSIVE FromBigEndian(_)
FromBigEndian(b) ==
    IF Len(b) = 0 THEN 0
    ELSE FromBigEndian(SubSeq(b, 1, Len(b) - 1)) * 256 + b[Len(b)]

\* --------------------------------------------------------------- base64
Base64Alphabet ==
    <<"A", "B", "C", "D", "E", "F", "G", "H", "I", "J", "K", "L", "M",
      "N", "O", "P", "Q", "R", "S", "T", "U", "V", "W", "X", "Y", "Z",
      "a", "b", "c", "d", "e", "f", "g", "h", "i", "j", "k", "l", "m",
      "n", "o", "p", "q", "r", "s", "t", "u", "v", "w", "x", "y", "z",
      "0", "1", "2", "3", "4", "5", "6", "7", "8", "9", "+", "/">>

Base64Value(c) == (CHOOSE i \in 1..64 : Base64Alphabet[i] = c) - 1

\* btoa: every three bytes become four characters, "=" fills the last group
btoa(bytes) ==
    LET n == Len(bytes)
        chars == (8 * n + 5) \div 6
        at(j) == IF j <= n THEN bytes[j] ELSE 0
        sextet(k) ==
            LET q == (6 * k) \div 8
                r == (6 * k) % 8
            IN  ((at(q + 1) * 256 + at(q + 2)) \div (2 ^ (10 - r))) % 64
    IN  [k \in 1..chars |-> Base64Alphabet[sextet(k - 1) + 1]]
            \o Repeat("=", (3 - (n % 3)) % 3)

\* encryption.ts:401-403  btoa, then "+" -> "-", "/" -> "_", "=" removed
base64UrlEncode(bytes) ==
    LET b == btoa(bytes)
        kept == SelectSeq(b, LAMBDA c : c # "=")
    IN  [i \in 1..Len(kept) |->
            IF kept[i] = "+" THEN "-" ELSE IF kept[i] = "/" THEN "_" ELSE kept[i]]

\* encryption.ts:416-423
arrayBufferToBase64Url(buffer) == base64UrlEncode(buffer)

\* encryption.ts:408-411  "-" -> "+", "_" -> "/", then "=" to a multiple of 4
base64UrlToBase64(base64Url) ==
    [i \in 1..Len(base64Url) |->
        IF base64Url[i] = "-" THEN "+"
        ELSE IF base64Url[i] = "_" THEN "/" ELSE base64Url[i]]
        \o Repeat("=", (4 - (Len(base64Url) % 4)) % 4)

\* atob (forgiving-base64 decode): up to two trailing "=" of a string whose
\* length is a multiple of 4 are dropped; a remaining length of 1 modulo 4 or
\* a character outside the alphabet throws; leftover bits are discarded
atob(base64) ==
    LET n == Len(base64)
        pad == IF n % 4 = 0 /\ n >= 2 /\ base64[n] = "=" /\ base64[n - 1] = "="
               THEN 2
               ELSE IF n % 4 = 0 /\ n >= 1 /\ base64[n] = "=" THEN 1 ELSE 0
        data == SubSeq(base64, 1, n - pad)
        m == Len(data)
        valid == /\ m % 4 # 1
                 /\ \A i \in 1..m : \E v \in 1..64 : Base64Alphabet[v] = data[i]
        val(k) == IF k <= m THEN Base64Value(data[k]) ELSE 0
        byte(j) ==
            LET q == (8 * j) \div 6
                r == (8 * j) % 6
            IN  ((val(q + 1) * 64 + val(q + 2)) \div (2 ^ (4 - r))) % 256
    IN  IF valid
        THEN [ok |-> TRUE, bytes |-> [j \in 1..((6 * m) \div 8) |-> byte(j - 1)]]
        ELSE [ok |-> FALSE, bytes |-> <<>>]

\* encryption.ts:428-436
base64UrlToArrayBuffer(base64Url) == atob(base64UrlToBase64(base64Url))

\* ----------------------------------------------------------- primitives
\* The platform's crypto.subtle, reduced to the algebra the framing relies
\* on: a key agreement that both sides compute alike, a key derivation and a
\* cipher that are functions of all their inputs, a tag that authenticates
\* the ciphertext, and a random source that never repeats a value.

\* a digest of bytes[lo..hi], position-sensitive
RECURSIVE DigestRange(_, _, _)
DigestRange(bytes, lo, hi) ==
    IF lo > hi THEN 0
    ELSE IF lo = hi THEN (bytes[lo] + 1) * ((lo % 13) + 1)
    ELSE LET mid == (lo + hi) \div 2
         IN  (DigestRange(bytes, lo, mid) + DigestRange(bytes, mid + 1, hi)) % 65521

Digest(bytes) == (DigestRange(bytes, 1, Len(bytes)) + 31 * Len(bytes)) % 65521

\* the y coordinate that goes with x on the model's curve
CurveY(x) == (x * x + 7) % 251

\* exportKey("raw", publicKey): 0x04 || X (32 bytes) || Y (32 bytes)
PublicKeyOf(private) ==
    <<4>> \o BigEndian(private, 32) \o BigEndian(CurveY(private), 32)

\* generateKey({name: "ECDH", namedCurve: "P-256"}) on the given draw
generateKey(draw) == [privateKey |-> draw, publicKey |-> PublicKeyOf(draw)]

\* importKey("raw", bytes, ECDH P-256): an uncompressed point on the curve
importKeyRaw(bytes) ==
    /\ Len(bytes) = 65
    /\ bytes[1] = 4
    /\ \A i \in 2..30 : bytes[i] = 0
    /\ \A i \in 34..62 : bytes[i] = 0
    /\ FromBigEndian(SubSeq(bytes, 31, 33)) > 0
    /\ FromBigEndian(SubSeq(bytes, 63, 65))
         = CurveY(FromBigEndian(SubSeq(bytes, 31, 33)))

\* deriveBits({name: "ECDH", public}, privateKey, 256): 32 bytes
deriveBitsEcdh(publicBytes, private) ==
    BigEndian((private * FromBigEndian(SubSeq(publicBytes, 31, 33))) % 65521, 32)

\* getRandomValues(new Uint8Array(16)) on the given draw
getRandomValues(draw) == BigEndian(draw, 16)

\* encryption.ts:364-388  HKDF-SHA-256 of ikm with salt and info
hkdf(salt, ikm, info, length) ==
    LET d == (Digest(salt) * 3 + Digest(ikm) * 5 + Digest(info) * 7) % 65521
    IN  [i \in 1..length |-> (d + (d \div 256) * i + 11 * i) % 256]

\* byte i of the AES-GCM key stream under key and iv
KeyStream(key, iv, i) ==
    (key[((i - 1) % Len(key)) + 1] * 3 + iv[((i - 1) % Len(iv)) + 1] * 5 + i) % 256

\* the 16-byte authentication tag of a ciphertext under key and iv
GcmTag(key, iv, ciphertext) ==
    LET d == (Digest(ciphertext) + Digest(key) * 3 + Digest(iv) * 5) % 65521
    IN  [j \in 1..16 |-> (d + (d \div 256) * j + 17 * j) % 256]

\* crypto.subtle.encrypt({name: "AES-GCM", iv}, key, data): ciphertext || tag
aesGcmEncrypt(key, iv, data) ==
    LET ciphertext == [i \in 1..Len(data) |->
                          (data[i] + KeyStream(key, iv, i)) % 256]
    IN  ciphertext \o GcmTag(key, iv, ciphertext)

\* TextEncoder.encode of one code point
Utf8CodePoint(c) ==
    IF c < 128 THEN <<c>>
    ELSE IF c < 2048 THEN <<192 + (c \div 64), 128 + (c % 64)>>
    ELSE IF c < 65536
         THEN <<224 + (c \div 4096), 128 + ((c \div 64) % 64), 128 + (c % 64)>>
    ELSE <<240 + (c \div 262144), 128 + ((c \div 4096) % 64),
           128 + ((c \div 64) % 64), 128 + (c % 64)>>

RECURSIVE Utf8Range(_, _, _)
Utf8Range(text, lo, hi) ==
    IF lo > hi THEN <<>>
    ELSE IF lo = hi THEN Utf8CodePoint(text[lo])
    ELSE LET mid == (lo + hi) \div 2
         IN  Utf8Range(text, lo, mid) \o Utf8Range(text, mid + 1, hi)

\* new TextEncoder().encode(text); text is a sequence of code points
TextEncoderEncode(text) == Utf8Range(text, 1, Len(text))

\* -------------------------------------------------------- encryptPayload
\* "WebPush: info\0"
InfoPrefix == <<87, 101, 98, 80, 117, 115, 104, 58, 32, 105, 110, 102, 111, 0>>

\* "Content-Encoding: "
ContentEncoding ==
    <<67, 111, 110, 116, 101, 110, 116, 45, 69, 110, 99, 111, 100, 105, 110,
      103, 58, 32>>

\* "Content-Encoding: aes128gcm\0"
CekInfo == ContentEncoding \o <<97, 101, 115, 49, 50, 56, 103, 99, 109, 0>>

\* "Content-Encoding: nonce\0"
NonceInfo == ContentEncoding \o <<110, 111, 110, 99, 101, 0>>

\* a variant that pads the record with a zero byte after the delimiter
PaddingWithZero == <<2, 0>>

\* encryption.ts:328  the RFC 8188 padding delimiter
Padding == <<2>>

\* a variant that writes the record size little-endian
rsLittleEndian == <<0, 16, 0, 0>>

\* encryption.ts:341  the record size field of the header
rs == <<0, 0, 16, 0>>

\* encryptPayload threw after consuming the given number of draws
EncryptThrew(error, draws) == [ok |-> FALSE, error |-> error, draws |-> draws]

\* a variant that keeps one salt for every call
encryptPayloadFixedSalt(plaintext, subscription, drawn) ==
    LET ecdhPair == generateKey(drawn + 1)
        recipient == base64UrlToArrayBuffer(subscription.keys.p256dh)
        auth == base64UrlToArrayBuffer(subscription.keys.auth)
        ephemeralPublicBytes == ecdhPair.publicKey
        sharedSecret == deriveBitsEcdh(recipient.bytes, ecdhPair.privateKey)
        ikm == hkdf(auth.bytes, sharedSecret,
                    InfoPrefix \o recipient.bytes \o ephemeralPublicBytes, 32)
        salt == getRandomValues(1)
        cekRaw == hkdf(salt, ikm, CekInfo, 16)
        nonce == hkdf(salt, ikm, NonceInfo, 12)
        input == TextEncoderEncode(plaintext) \o Padding
        encrypted == aesGcmEncrypt(cekRaw, nonce, input)
    IN  IF ~recipient.ok THEN EncryptThrew("InvalidCharacterError", 1)
        ELSE IF ~importKeyRaw(recipient.bytes) THEN EncryptThrew("DataError", 1)
        ELSE IF ~auth.ok THEN EncryptThrew("InvalidCharacterError", 1)
        ELSE [ok |-> TRUE, draws |-> 2, salt |-> salt,
              ephemeralPublicBytes |-> ephemeralPublicBytes, input |-> input,
              encrypted |-> encrypted,
              result |-> salt \o rs \o <<Len(ephemeralPublicBytes)>>
                              \o ephemeralPublicBytes \o encrypted]

\* encryption.ts:254-359  drawn is the number of values the random source
\* has given out; the locals the frame is built from are returned with it
encryptPayload(plaintext, subscription, drawn) ==
    LET ecdhPair == generateKey(drawn + 1)
        recipient == base64UrlToArrayBuffer(subscription.keys.p256dh)
        auth == base64UrlToArrayBuffer(subscription.keys.auth)
        ephemeralPublicBytes == ecdhPair.publicKey
        sharedSecret == deriveBitsEcdh(recipient.bytes, ecdhPair.privateKey)
        ikm == hkdf(auth.bytes, sharedSecret,
                    InfoPrefix \o recipient.bytes \o ephemeralPublicBytes, 32)
        salt == getRandomValues(drawn + 2)
        cekRaw == hkdf(salt, ikm, CekInfo, 16)
        nonce == hkdf(salt, ikm, NonceInfo, 12)
        input == TextEncoderEncode(plaintext) \o Padding
        encrypted == aesGcmEncrypt(cekRaw, nonce, input)
    IN  IF ~recipient.ok THEN EncryptThrew("InvalidCharacterError", 1)
        ELSE IF ~importKeyRaw(recipient.bytes) THEN EncryptThrew("DataError", 1)
        ELSE IF ~auth.ok THEN EncryptThrew("InvalidCharacterError", 1)
        ELSE [ok |-> TRUE, draws |-> 2, salt |-> salt,
              ephemeralPublicBytes |-> ephemeralPublicBytes, input |-> input,
              encrypted |-> encrypted,
              result |-> salt \o rs \o <<Len(ephemeralPublicBytes)>>
                              \o ephemeralPublicBytes \o encrypted]

\* ---------------------------------------------------------- subscribers
\* the private key and the auth secret the user agent of subscriber e holds
UaPrivate(e) == 100 + e

AuthSecret(e) == <<251, 255>> \o BigEndian(e, 14)

\* The table and the dispatcher pass key texts on unread, so there a text
\* goes by a short name: which key, of which subscriber, in which generation
\* of that subscriber's keys.
KeyName(key, e, generation) ==
    key \o "/" \o ToString(e) \o "/" \o ToString(generation)

\* the characters a name stands for, which is what encryptPayload reads
TextOf(name) ==
    LET of == CHOOSE x \in {"p256dh", "auth"} \X Endpoints \X {0, 1} :
                  KeyName(x[1], x[2], x[3]) = name
    IN  IF of[1] = "p256dh"
        THEN arrayBufferToBase64Url(PublicKeyOf(UaPrivate(of[2]) + 50 * of[3]))
        ELSE arrayBufferToBase64Url(AuthSecret(of[2] + 50 * of[3]))

\* what the user agent of subscriber e posts to /subscribe with the keys of
\* the given generation; the first registration carries no expiration time
Registrations ==
    [e \in Endpoints |-> [generation \in {0, 1} |->
        [endpoint |-> e,
         expirationTime |-> IF generation = 0 THEN Null ELSE Time(1700086400),
         keys |-> [p256dh |-> KeyName("p256dh", e, generation),
                   auth |-> KeyName("auth", e, generation)]]]]

Registration(e, generation) == Registrations[e][generation]

\* the first registration of subscriber e with its key texts spelled out
ValidSubscription(e) ==
    [endpoint |-> e,
     expirationTime |-> Null,
     keys |-> [p256dh |-> TextOf(Registration(e, 0).keys.p256dh),
               auth |-> TextOf(Registration(e, 0).keys.auth)]]

\* subscriptions of subscriber 1 as a client may post them to /subscribe:
\* handleSubscribe stores the keys it is given without looking at them
MalformedSubscriptions ==
    LET v == ValidSubscription(1)
        point == PublicKeyOf(UaPrivate(1))
        secret == AuthSecret(1)
        with(p, a) == [endpoint |-> 1, expirationTime |-> Null,
                       keys |-> [p256dh |-> p, auth |-> a]]
    IN  { with(arrayBufferToBase64Url(SubSeq(point, 1, 64)), v.keys.auth),
          with(arrayBufferToBase64Url(point \o <<0>>), v.keys.auth),
          with(<<"*">> \o Tail(v.keys.p256dh), v.keys.auth),
          with(v.keys.p256dh, arrayBufferToBase64Url(SubSeq(secret, 1, 15))),
          with(v.keys.p256dh, arrayBufferToBase64Url(secret \o <<0>>)),
          with(v.keys.p256dh, <<>>),
          with(v.keys.p256dh, <<"*">> \o Tail(v.keys.auth)),
          with(v.keys.p256dh, btoa(secret)) }

Subscriptions == {ValidSubscription(e) : e \in Endpoints} \cup MalformedSubscriptions

\* payload strings, as code points: "", "hi", an accented letter, a euro sign
\* and a digit, a bell emoji
Plaintexts == {<<>>, <<104, 105>>, <<233>>, <<8364, 49>>, <<128276>>}

RecordSize == 4096

\* the longest payload whose record fits the record size, and the next longer
LongPlaintexts == {Repeat(97, RecordSize - 17), Repeat(97, RecordSize - 16)}

\* what sendPush is first called with
Inputs ==
    [subscription : Subscriptions, payloadString : Plaintexts]
        \cup [subscription : {ValidSubscription(1)}, payloadString : LongPlaintexts]

\* the input the contact strings and clock readings are tried with
DefaultArgs ==
    [subscription |-> ValidSubscription(1), payloadString |-> <<104, 105>>]

\* sendPush is not called by itself
NoArgs == [subscription |-> 0, payloadString |-> <<>>]

MaxCalls == 2

\* --------------------------------------------------------------- router
\* the JSON body of a response; a field the handler does not write keeps
\* the value it has here
NoBody ==
    [success |-> FALSE, sent |-> 0, failed |-> 0, active_subscriptions |-> 0,
     error |-> ""]

\* how the promise of a handler, or of handleRequest, settles
NoReply == [kind |-> "none", status |-> 0, body |-> NoBody]
Reply(status, body) == [kind |-> "response", status |-> status, body |-> body]
Rejected ==
    [kind |-> "rejected", status |-> 0,
     body |-> [NoBody EXCEPT !.error = "error.message"]]

\* router.ts catch block: a status-500 response carrying the error message
ErrorReply(h) == Reply(500, [NoBody EXCEPT !.error = h.body.error])

\* new Response(JSON.stringify({ success: true }))
Success == Reply(200, [NoBody EXCEPT !.success = TRUE])

\* a variant that reports the deliveries that were accepted only
CountsSentOnly(sent, failed) ==
    Reply(200, [NoBody EXCEPT !.success = TRUE, !.sent = sent])

\* handleWebhook / handleTest: { success: true, sent, failed }
Counts(sent, failed) ==
    Reply(200, [NoBody EXCEPT !.success = TRUE, !.sent = sent, !.failed = failed])

\* no request is being served
NoRequest == [phase |-> "idle", handler |-> "", target |-> 0, settled |-> NoReply]

Paths ==
    {"/health", "/subscribe", "/unsubscribe", "/webhook", "/test", "/stats",
     "/nowhere"}

\* request bodies: text that is not JSON, JSON without an endpoint member,
\* JSON whose endpoint member names a subscriber
RequestBodies ==
    {[json |-> FALSE, endpoint |-> 0]}
        \cup [json : {TRUE}, endpoint : {0} \cup Endpoints]

Requests == [path : Paths, method : {"GET", "POST"}, body : RequestBodies]

\* router.ts handleRequest: the chain of tests on path and method
Route(request) ==
    LET path == request.path
        method == request.method
    IN  IF path = "/health" THEN "handleHealth"
        ELSE IF path = "/subscribe" /\ method = "POST" THEN "handleSubscribe"
        ELSE IF path = "/unsubscribe" /\ method = "POST" THEN "handleUnsubscribe"
        ELSE IF path = "/webhook" /\ method = "POST" THEN "handleWebhook"
        ELSE IF path = "/test" /\ method = "POST" THEN "handleTest"
        ELSE IF path = "/stats" /\ method = "GET" THEN "handleStats"
        ELSE "Not Found"

\* a variant that awaits the handler inside the try block
handleRequestAwait(h) == IF h.kind = "rejected" THEN ErrorReply(h) ELSE h

\* router.ts handleRequest: "return handleX(request, env, url)" inside try.
\* Every handler is an async function, so the call itself never throws; the
\* promise it returns is returned without await and handleRequest settles as
\* that promise does, the catch block being past by then.
handleRequest(h) == h

\* the legacy worker entry (push.ts fetch): the handlers are inlined in the
\* try block and every promise is awaited there
fetch(h) == IF h.kind = "rejected" THEN ErrorReply(h) ELSE h

\* handleStats: { active_subscriptions: subscriptions.length }
handleStats(db, ok) ==
    LET r == getActiveSubscriptions(db, ok)
    IN  IF r.err THEN Rejected
        ELSE Reply(200, [NoBody EXCEPT
                            !.active_subscriptions = Cardinality(r.rows)])

\* handleTest: const targetEndpoint = (body as any).endpoint, body being {}
\* when the request text is not JSON
TargetEndpoint(body) == IF body.json THEN body.endpoint ELSE 0

\* ---------------------------------------------- sendPushToAll (legacy)
\* What one subscriber's delivery meets: the step that throws, if any, and
\* the status of the response when there is one.
Met(threw, status) == [threw |-> threw, status |-> status]

\* the steps of sendPush that come before fetch
BeforeFetch ==
    {"getAudience", "importVapidPrivateKey", "createVapidJwt", "encryptPayload"}

\* part_001:30-51  the for loop with await, one record after the other:
\* counts, the endpoints a request was sent to and the endpoints
\* deactivateSubscription was called for
RECURSIVE LegacyLoop(_, _, _)
LegacyLoop(subscriptions, met, acc) ==
    IF subscriptions = <<>> THEN acc
    ELSE LET e == Head(subscriptions)
             m == met[e]
             requested == m.threw \notin BeforeFetch
             answered == requested /\ m.threw # "fetch"
             gone == answered /\ m.status = 410
             sent == answered /\ (m.status = 200 \/ m.status = 201)
         IN  LegacyLoop(Tail(subscriptions), met,
                [sent |-> acc.sent + (IF sent THEN 1 ELSE 0),
                 failed |-> acc.failed + (IF sent THEN 0 ELSE 1),
                 requests |-> acc.requests \cup (IF requested THEN {e} ELSE {}),
                 deactivated |->
                     acc.deactivated \cup (IF gone THEN {e} ELSE {})])

\* part_001:19-53  sendPushToAll: the listing is awaited outside any try
LegacySendPushToAll(listingOk, subscriptions, met) ==
    IF ~listingOk THEN [kind |-> "error"]
    ELSE [kind |-> "counts"] @@
         LegacyLoop(subscriptions, met,
                    [sent |-> 0, failed |-> 0, requests |-> {},
                     deactivated |-> {}])

\* ----------------------------------------------------------------- Init
\* nothing is stored and no call is in progress
Idle ==
    /\ store = [e \in Endpoints |-> AbsentRow]
    /\ apc = "idle"
    /\ listing = "none"
    /\ listed = <<>>
    /\ tpc = [e \in Endpoints |-> "none"]
    /\ outcome = [e \in Endpoints |-> NoOutcome]
    /\ ret = [e \in Endpoints |-> "none"]
    /\ imported = [e \in Endpoints |-> 0]
    /\ signed = [e \in Endpoints |-> 0]
    /\ posts = [e \in Endpoints |-> 0]
    /\ deactCalls = [e \in Endpoints |-> 0]
    /\ aResult = NoResult
    /\ opc = "idle"
    /\ oEndpoint = 0
    /\ oFound = "none"
    /\ oOutcome = NoOutcome
    /\ oSigned = 0
    /\ oPosts = 0
    /\ oDeact = 0
    /\ oResult = NoResult
    /\ rng = 0
    /\ wire = <<>>
    /\ last = NoCall
    /\ http = NoRequest

Init ==
    /\ Idle
    /\ keyOk \in BOOLEAN
    /\ now = 1700000123
    /\ contact = <<"a", "@", "b">>
    /\ args = NoArgs

\* the data path: every contact string and clock reading with one input,
\* and every input with one contact string and clock reading
DataInit ==
    /\ Idle
    /\ keyOk \in BOOLEAN
    /\ \/ /\ now \in Times
          /\ contact \in Subjects
          /\ args = DefaultArgs
       \/ /\ now = 1700000123
          /\ contact = Address
          /\ args \in Inputs

\* ------------------------------------------------------- route handlers
\* The model handles one delivery call (sendPushToAll or
\* sendNotificationToSubscription) at a time: the two share nothing but the
\* table, which sendNotificationToSubscription only reads, once, in its
\* lookup.  Subscribe and Unsubscribe requests interleave with every step.

\* handleSubscribe -> saveSubscription (db.ts:29-46)
Subscribe(e) ==
    /\ store' = saveSubscription(store, Registration(e, 0))
    /\ UNCHANGED <<envVars, dataVars, allVars, oneVars>>

\* handleUnsubscribe -> deactivateSubscription (db.ts:51-56)
Unsubscribe(e) ==
    /\ store' = DEACTIVATE_SUBSCRIPTION(store, e)
    /\ UNCHANGED <<envVars, dataVars, allVars, oneVars>>

\* ------------------------------------------------------- sendPushToAll
\* a task whose code threw: the catch block settles its promise
Throw(e) ==
    /\ tpc' = [tpc EXCEPT ![e] = "done"]
    /\ outcome' = [outcome EXCEPT ![e] = Exception]
    /\ ret' = [ret EXCEPT ![e] = CatchResult]

\* push.ts:24-34: the listing is awaited; on success every row's
\* processSubscription is started and runs up to its first await, i.e.
\* through recordToSubscription and getAudience (new URL may throw)
SendPushToAll_List ==
    /\ apc = "idle"
    /\ opc = "idle"
    /\ \E ok \in BOOLEAN :
         LET r == getActiveSubscriptions(store, ok) IN
         /\ listing' = (IF ok THEN "rows" ELSE "error")
         /\ IF r.err
            THEN /\ apc' = "rejected"
                 /\ aResult' = ErrorThrown
                 /\ UNCHANGED <<listed, tpc, outcome, ret>>
            ELSE \E bad \in SUBSET r.rows :
                 /\ apc' = "fanout"
                 /\ listed' = RowsInOrder(r.rows)
                 /\ tpc' = [e \in Endpoints |->
                               IF e \in bad THEN "done"
                               ELSE IF e \in r.rows THEN "import" ELSE "none"]
                 /\ outcome' = [e \in Endpoints |->
                                   IF e \in bad THEN Exception ELSE NoOutcome]
                 /\ ret' = [e \in Endpoints |->
                               IF e \in bad THEN CatchResult
                               ELSE IF e \in r.rows THEN "pending" ELSE "none"]
                 /\ UNCHANGED aResult
    /\ UNCHANGED <<store, envVars, dataVars, imported, signed, posts, deactCalls, oneVars>>

\* a variant that goes on to sign whether or not the key was imported
ImportKeyUnchecked(e) ==
    /\ tpc[e] = "import"
    /\ imported' = [imported EXCEPT ![e] = @ + 1]
    /\ tpc' = [tpc EXCEPT ![e] = "sign"]
    /\ UNCHANGED <<outcome, ret>>
    /\ UNCHANGED <<store, envVars, dataVars, apc, listing, listed, signed, posts, deactCalls,
                   aResult, oneVars>>

\* push.ts:87  await importVapidPrivateKey(env.VAPID_PRIVATE_KEY)
ImportKey(e) ==
    /\ tpc[e] = "import"
    /\ imported' = [imported EXCEPT ![e] = @ + 1]
    /\ IF keyOk
       THEN /\ tpc' = [tpc EXCEPT ![e] = "sign"]
            /\ UNCHANGED <<outcome, ret>>
       ELSE Throw(e)
    /\ UNCHANGED <<store, envVars, dataVars, apc, listing, listed, signed, posts, deactCalls,
                   aResult, oneVars>>

\* push.ts:90-95  await createVapidJwt(...)
SignJwt(e) ==
    /\ tpc[e] = "sign"
    /\ \E ok \in BOOLEAN :
         IF ok
         THEN /\ tpc' = [tpc EXCEPT ![e] = "encrypt"]
              /\ signed' = [signed EXCEPT ![e] = @ + 1]
              /\ UNCHANGED <<outcome, ret>>
         ELSE Throw(e) /\ UNCHANGED signed
    /\ UNCHANGED <<store, envVars, dataVars, apc, listing, listed, imported, posts, deactCalls, aResult,
                   oneVars>>

\* push.ts:98  await encryptPayload(payloadString, subscription)
EncryptPayload(e) ==
    /\ tpc[e] = "encrypt"
    /\ \E ok \in BOOLEAN :
         IF ok
         THEN /\ tpc' = [tpc EXCEPT ![e] = "post"]
              /\ UNCHANGED <<outcome, ret>>
         ELSE Throw(e)
    /\ UNCHANGED <<store, envVars, dataVars, apc, listing, listed, imported, signed, posts, deactCalls,
                   aResult, oneVars>>

\* push.ts:101-111  fetch(subscription.endpoint, {method: "POST", ...})
Fetch(e) ==
    /\ tpc[e] = "post"
    /\ tpc' = [tpc EXCEPT ![e] = "wait"]
    /\ posts' = [posts EXCEPT ![e] = @ + 1]
    /\ UNCHANGED <<store, envVars, dataVars, apc, listing, listed, outcome, ret, imported, signed,
                   deactCalls, aResult, oneVars>>

\* push.ts:55-65  the awaited fetch settles: a response, or a transport error
Respond(e) ==
    /\ tpc[e] = "wait"
    /\ \/ \E s \in Statuses :
            /\ outcome' = [outcome EXCEPT ![e] = Status(s)]
            /\ tpc' = [tpc EXCEPT ![e] = AfterStatus(s)]
            /\ ret' = [ret EXCEPT ![e] =
                          IF AfterStatus(s) = "done" THEN "true" ELSE @]
       \/ Throw(e)
    /\ UNCHANGED <<store, envVars, dataVars, apc, listing, listed, imported, signed, posts, deactCalls,
                   aResult, oneVars>>

\* a variant that deactivates the first listed row whichever task asks
DeactivateFirstRow(e) == listed[1]

\* push.ts:63  the key handed to deactivateSubscription: subscription.endpoint
DeactivateTarget(e) == e

\* push.ts:61-65  await deactivateSubscription(db, subscription.endpoint);
\* return false -- a failing write throws into the catch block
Deactivate(e) ==
    /\ tpc[e] = "deact"
    /\ deactCalls' = [deactCalls EXCEPT ![DeactivateTarget(e)] = @ + 1]
    /\ tpc' = [tpc EXCEPT ![e] = "done"]
    /\ \E ok \in BOOLEAN :
         IF ok
         THEN /\ store' = DEACTIVATE_SUBSCRIPTION(store, DeactivateTarget(e))
              /\ ret' = [ret EXCEPT ![e] = "false"]
         ELSE /\ store' = store
              /\ ret' = [ret EXCEPT ![e] = CatchResult]
    /\ UNCHANGED <<envVars, dataVars, apc, listing, listed, outcome, imported, signed, posts, aResult,
                   oneVars>>

\* push.ts:67-69  await result.text(); console.error(...); return false
ReadBody(e) ==
    /\ tpc[e] = "body"
    /\ tpc' = [tpc EXCEPT ![e] = "done"]
    /\ \E ok \in BOOLEAN :
         ret' = [ret EXCEPT ![e] = IF ok THEN "false" ELSE CatchResult]
    /\ UNCHANGED <<store, envVars, dataVars, apc, listing, listed, outcome, imported, signed, posts,
                   deactCalls, aResult, oneVars>>

\* the results array in the order of the rows
Results == [i \in 1..Len(listed) |-> ret[listed[i]]]

\* push.ts:30-41  the await on Promise.all continues: count and return, or
\* rethrow the rejection
SendPushToAll_Return ==
    /\ apc = "fanout"
    /\ PromiseAll(listed, ret) # "pending"
    /\ IF PromiseAll(listed, ret) = "rejected"
       THEN apc' = "rejected" /\ aResult' = ErrorThrown
       ELSE apc' = "resolved" /\ aResult' = Tally(Results, 0, 0)
    /\ UNCHANGED <<store, envVars, dataVars, listing, listed, tpc, outcome, ret, imported, signed, posts,
                   deactCalls, oneVars>>

\* the caller has taken the result; the next call starts afresh
SendPushToAll_Done ==
    /\ apc \in {"resolved", "rejected"}
    /\ apc' = "idle"
    /\ listing' = "none"
    /\ listed' = <<>>
    /\ tpc' = [e \in Endpoints |-> "none"]
    /\ outcome' = [e \in Endpoints |-> NoOutcome]
    /\ ret' = [e \in Endpoints |-> "none"]
    /\ imported' = [e \in Endpoints |-> 0]
    /\ signed' = [e \in Endpoints |-> 0]
    /\ posts' = [e \in Endpoints |-> 0]
    /\ deactCalls' = [e \in Endpoints |-> 0]
    /\ aResult' = NoResult
    /\ UNCHANGED <<store, envVars, dataVars, oneVars>>

\* ------------------------------------- sendNotificationToSubscription
\* a variant without the catch block: the exception leaves the call
OneThrowPropagates ==
    /\ opc' = "rejected"
    /\ oOutcome' = Exception
    /\ oResult' = ErrorThrown

\* sendPush or result.text() threw: push.ts:172-179
OneThrow ==
    /\ opc' = "returned"
    /\ oOutcome' = Exception
    /\ oResult' = ErrorResult

\* push.ts:125-157: the lookup is awaited (a failing query rejects the call);
\* no row -> the 404 value; a row -> sendPush runs up to its first await
One_Lookup(e) ==
    /\ opc = "idle"
    /\ apc = "idle"
    /\ oEndpoint' = e
    /\ \E ok \in BOOLEAN :
         IF ~ok
         THEN /\ opc' = "rejected"
              /\ oResult' = ErrorThrown
              /\ UNCHANGED <<oFound, oOutcome>>
         ELSE IF ~getSubscriptionByEndpoint(store, e)
         THEN /\ opc' = "returned"
              /\ oFound' = "null"
              /\ oResult' = NotFoundResult
              /\ UNCHANGED oOutcome
         ELSE /\ oFound' = "row"
              /\ \/ opc' = "import" /\ UNCHANGED <<oOutcome, oResult>>
                 \/ OneThrow
    /\ UNCHANGED <<store, envVars, dataVars, allVars, oSigned, oPosts, oDeact>>

\* push.ts:87 on this path
One_ImportKey ==
    /\ opc = "import"
    /\ IF keyOk
       THEN opc' = "sign" /\ UNCHANGED <<oOutcome, oResult>>
       ELSE OneThrow
    /\ UNCHANGED <<store, envVars, dataVars, allVars, oEndpoint, oFound, oSigned, oPosts, oDeact>>

\* push.ts:90-95 on this path
One_SignJwt ==
    /\ opc = "sign"
    /\ \/ /\ opc' = "encrypt"
          /\ oSigned' = oSigned + 1
          /\ UNCHANGED <<oOutcome, oResult>>
       \/ OneThrow /\ UNCHANGED oSigned
    /\ UNCHANGED <<store, envVars, dataVars, allVars, oEndpoint, oFound, oPosts, oDeact>>

\* push.ts:98 on this path
One_EncryptPayload ==
    /\ opc = "encrypt"
    /\ \/ opc' = "post" /\ UNCHANGED <<oOutcome, oResult>>
       \/ OneThrow
    /\ UNCHANGED <<store, envVars, dataVars, allVars, oEndpoint, oFound, oSigned, oPosts, oDeact>>

\* push.ts:101-111 on this path
One_Fetch ==
    /\ opc = "post"
    /\ opc' = "wait"
    /\ oPosts' = oPosts + 1
    /\ UNCHANGED <<store, envVars, dataVars, allVars, oEndpoint, oFound, oOutcome, oSigned,
                   oDeact, oResult>>

\* push.ts:157  the awaited sendPush settles
One_Respond ==
    /\ opc = "wait"
    /\ \/ \E s \in Statuses :
            /\ oOutcome' = Status(s)
            /\ opc' = "body"
            /\ UNCHANGED oResult
       \/ OneThrow
    /\ UNCHANGED <<store, envVars, dataVars, allVars, oEndpoint, oFound, oSigned, oPosts, oDeact>>

\* push.ts:158-171  await result.text(), then the outcome value
One_ReadBody ==
    /\ opc = "body"
    /\ \/ \E text \in Bodies :
            /\ opc' = "returned"
            /\ oResult' = ResponseResult(oOutcome.status, text)
            /\ UNCHANGED oOutcome
       \/ OneThrow
    /\ UNCHANGED <<store, envVars, dataVars, allVars, oEndpoint, oFound, oSigned, oPosts, oDeact>>

\* the caller has taken the outcome
One_Done ==
    /\ opc \in {"returned", "rejected"}
    /\ opc' = "idle"
    /\ oEndpoint' = 0
    /\ oFound' = "none"
    /\ oOutcome' = NoOutcome
    /\ oSigned' = 0
    /\ oPosts' = 0
    /\ oDeact' = 0
    /\ oResult' = NoResult
    /\ UNCHANGED <<store, envVars, dataVars, allVars>>

\* --------------------------------------------------------------- router
\* One request is served at a time.  A handler that only reads or writes the
\* table is one step; /webhook and /test call into the dispatcher, whose
\* steps are the ones above, and settle when the call has.
Serving(handler, target, h) ==
    [phase |-> "settled", handler |-> handler, target |-> target,
     settled |-> handleRequest(h)]

Calling(phase, handler, target) ==
    [phase |-> phase, handler |-> handler, target |-> target,
     settled |-> NoReply]

RouterIdle == http.phase = "idle" /\ apc = "idle" /\ opc = "idle"

\* handleSubscribe: req.json() rejects on a body that is not JSON, reading
\* subscription.keys.p256dh throws when the members are missing, and the
\* write may fail
Http_Subscribe(request) ==
    /\ RouterIdle
    /\ Route(request) = "handleSubscribe"
    /\ \E ok \in BOOLEAN :
         IF request.body.json /\ request.body.endpoint # 0 /\ ok
         THEN /\ store' = saveSubscription(store,
                              Registration(request.body.endpoint, 0))
              /\ http' = Serving("handleSubscribe", request.body.endpoint,
                                 Success)
         ELSE /\ store' = store
              /\ http' = Serving("handleSubscribe", request.body.endpoint,
                                 Rejected)
    /\ UNCHANGED <<bindings, dataVars, allVars, oneVars>>

\* handleUnsubscribe
Http_Unsubscribe(request) ==
    /\ RouterIdle
    /\ Route(request) = "handleUnsubscribe"
    /\ \E ok \in BOOLEAN :
         IF request.body.json /\ ok
         THEN /\ store' = IF request.body.endpoint \in Endpoints
                          THEN DEACTIVATE_SUBSCRIPTION(store,
                                                       request.body.endpoint)
                          ELSE store
              /\ http' = Serving("handleUnsubscribe", request.body.endpoint,
                                 Success)
         ELSE /\ store' = store
              /\ http' = Serving("handleUnsubscribe", request.body.endpoint,
                                 Rejected)
    /\ UNCHANGED <<bindings, dataVars, allVars, oneVars>>

\* handleStats
Http_Stats(request) ==
    /\ RouterIdle
    /\ Route(request) = "handleStats"
    /\ \E ok \in BOOLEAN :
         http' = Serving("handleStats", 0, handleStats(store, ok))
    /\ UNCHANGED <<store, bindings, dataVars, allVars, oneVars>>

\* handleHealth, and the final "Not Found"
Http_Plain(request) ==
    /\ RouterIdle
    /\ Route(request) \in {"handleHealth", "Not Found"}
    /\ http' = Serving(Route(request), 0,
                       IF Route(request) = "handleHealth"
                       THEN Reply(200, NoBody) ELSE Reply(404, NoBody))
    /\ UNCHANGED <<store, bindings, dataVars, allVars, oneVars>>

\* handleWebhook up to its call of sendPushToAll: parsing the body,
\* formatArrMessage or saveNotification may throw
Http_Webhook(request) ==
    /\ RouterIdle
    /\ Route(request) = "handleWebhook"
    /\ \E ok \in BOOLEAN :
         http' = IF request.body.json /\ ok
                 THEN Calling("all", "handleWebhook", 0)
                 ELSE Serving("handleWebhook", 0, Rejected)
    /\ UNCHANGED <<store, bindings, dataVars, allVars, oneVars>>

\* handleTest up to its call into the dispatcher: a body that is not JSON
\* is read as {}; a truthy endpoint member selects the single delivery
Http_Test(request) ==
    /\ RouterIdle
    /\ Route(request) = "handleTest"
    /\ http' = IF TargetEndpoint(request.body) # 0
               THEN Calling("one", "handleTest", TargetEndpoint(request.body))
               ELSE Calling("all", "handleTest", 0)
    /\ UNCHANGED <<store, bindings, dataVars, allVars, oneVars>>

\* await sendPushToAll(env.DB, pushPayload, env)
Http_CallAll == http.phase = "all" /\ SendPushToAll_List

\* await sendNotificationToSubscription(env.DB, targetEndpoint, ...)
Http_CallOne == http.phase = "one" /\ One_Lookup(http.target)

\* the awaited sendPushToAll has settled: the handler answers with the
\* counts, or rejects as the call did
Http_SettleAll ==
    /\ http.phase = "all"
    /\ apc \in {"resolved", "rejected"}
    /\ http' = [http EXCEPT
                  !.phase = "settled",
                  !.settled = handleRequest(
                      IF apc = "rejected" THEN Rejected
                      ELSE Counts(aResult.sent, aResult.failed))]
    /\ UNCHANGED <<store, bindings, dataVars, allVars, oneVars>>

\* the awaited sendNotificationToSubscription has settled: sent and failed
\* are 1 and 0 or 0 and 1 after detail.success
Http_SettleOne ==
    /\ http.phase = "one"
    /\ opc \in {"returned", "rejected"}
    /\ http' = [http EXCEPT
                  !.phase = "settled",
                  !.settled = handleRequest(
                      IF opc = "rejected" THEN Rejected
                      ELSE IF oResult.success THEN Counts(1, 0)
                      ELSE Counts(0, 1))]
    /\ UNCHANGED <<store, bindings, dataVars, allVars, oneVars>>

Http_DoneAll == http.phase = "settled" /\ SendPushToAll_Done

Http_DoneOne == http.phase = "settled" /\ One_Done

\* the response has gone out
Http_Close ==
    /\ http.phase = "settled"
    /\ apc = "idle"
    /\ opc = "idle"
    /\ http' = NoRequest
    /\ UNCHANGED <<store, bindings, dataVars, allVars, oneVars>>

\* ------------------------------------------------------------- sendPush
\* push.ts:79-114 as one step, for the bytes it puts on the wire.  The
\* payload string is that of args for every call, as in one sendPushToAll;
\* the first call delivers to the subscription of args, a later one to it
\* again or to another subscriber.
Data_SendPush(subscription) ==
    /\ last.call < MaxCalls
    /\ last.call = 0 => subscription = args.subscription
    /\ LET url == EndpointUrl(subscription.endpoint)
           payloadString == args.payloadString
           call == [call |-> last.call + 1, subscription |-> subscription,
                    payloadString |-> payloadString]
           vapidJwt == createVapidJwt(getAudience(url), contact, now)
           enc == encryptPayload(payloadString, subscription, rng)
       IN  IF ~keyOk
           THEN /\ last' = call @@ [kind |-> "threw", returned |-> CatchResult,
                                    threwIn |-> "importVapidPrivateKey"]
                /\ UNCHANGED <<rng, wire>>
           ELSE IF ~enc.ok
           THEN /\ last' = call @@ [kind |-> "threw", returned |-> CatchResult,
                                    threwIn |-> "encryptPayload",
                                    vapidJwt |-> vapidJwt]
                /\ rng' = rng + enc.draws
                /\ UNCHANGED wire
           ELSE /\ last' = call @@ [kind |-> "posted", vapidJwt |-> vapidJwt,
                                    issuedAt |-> now, subject |-> contact,
                                    enc |-> enc,
                                    request |-> [url |-> url,
                                                 authorization |-> vapidJwt,
                                                 body |-> enc.result]]
                /\ rng' = rng + enc.draws
                /\ wire' = Append(wire, [url |-> url,
                                         aud |-> vapidJwt.payload.aud,
                                         salt |-> enc.salt,
                                         keyid |-> enc.ephemeralPublicBytes])
    /\ UNCHANGED <<store, envVars, allVars, oneVars, args>>

DataNext ==
    \E subscription \in {args.subscription} \cup
                        {ValidSubscription(e) : e \in Endpoints} :
        Data_SendPush(subscription)

\* ----------------------------------------------------------------- Next
Next ==
    \/ \E e \in Endpoints : Subscribe(e)
    \/ \E e \in Endpoints : Unsubscribe(e)
    \/ SendPushToAll_List
    \/ \E e \in Endpoints : ImportKey(e)
    \/ \E e \in Endpoints : SignJwt(e)
    \/ \E e \in Endpoints : EncryptPayload(e)
    \/ \E e \in Endpoints : Fetch(e)
    \/ \E e \in Endpoints : Respond(e)
    \/ \E e \in Endpoints : Deactivate(e)
    \/ \E e \in Endpoints : ReadBody(e)
    \/ SendPushToAll_Return
    \/ SendPushToAll_Done
    \/ \E e \in Endpoints : One_Lookup(e)
    \/ One_ImportKey
    \/ One_SignJwt
    \/ One_EncryptPayload
    \/ One_Fetch
    \/ One_Respond
    \/ One_ReadBody
    \/ One_Done

Spec == Init /\ [][Next]_vars

DataSpec == DataInit /\ [][DataNext]_vars

\* One sendPushToAll run at a time with no other request in between: the
\* table is written by /subscribe and /unsubscribe only while no run is in
\* progress, so that what a run leaves behind is the work of its tasks.
Run_Subscribe(e) == apc = "idle" /\ Subscribe(e)

Run_Unsubscribe(e) == apc = "idle" /\ Unsubscribe(e)

\* handleSubscribe for an endpoint whose user agent has rotated its keys
Run_Resubscribe ==
    /\ apc = "idle"
    /\ store' = saveSubscription(store, Registration(1, 1))
    /\ UNCHANGED <<envVars, dataVars, allVars, oneVars>>

RunNext ==
    \/ \E e \in Endpoints : Run_Subscribe(e)
    \/ \E e \in Endpoints : Run_Unsubscribe(e)
    \/ Run_Resubscribe
    \/ SendPushToAll_List
    \/ \E e \in Endpoints : ImportKey(e)
    \/ \E e \in Endpoints : SignJwt(e)
    \/ \E e \in Endpoints : EncryptPayload(e)
    \/ \E e \in Endpoints : Fetch(e)
    \/ \E e \in Endpoints : Respond(e)
    \/ \E e \in Endpoints : Deactivate(e)
    \/ \E e \in Endpoints : ReadBody(e)
    \/ SendPushToAll_Return
    \/ SendPushToAll_Done

RunSpec == Init /\ [][RunNext]_vars

\* The router with the dispatcher behind it, one request at a time.
RouterNext ==
    \/ \E request \in Requests : Http_Subscribe(request)
    \/ \E request \in Requests : Http_Unsubscribe(request)
    \/ \E request \in Requests : Http_Stats(request)
    \/ \E request \in Requests : Http_Plain(request)
    \/ \E request \in Requests : Http_Webhook(request)
    \/ \E request \in Requests : Http_Test(request)
    \/ Http_CallAll
    \/ \E e \in Endpoints : ImportKey(e)
    \/ \E e \in Endpoints : SignJwt(e)
    \/ \E e \in Endpoints : EncryptPayload(e)
    \/ \E e \in Endpoints : Fetch(e)
    \/ \E e \in Endpoints : Respond(e)
    \/ \E e \in Endpoints : Deactivate(e)
    \/ \E e \in Endpoints : ReadBody(e)
    \/ SendPushToAll_Return
    \/ Http_SettleAll
    \/ Http_DoneAll
    \/ Http_CallOne
    \/ One_ImportKey
    \/ One_SignJwt
    \/ One_EncryptPayload
    \/ One_Fetch
    \/ One_Respond
    \/ One_ReadBody
    \/ Http_SettleOne
    \/ Http_DoneOne
    \/ Http_Close

RouterSpec == Init /\ [][RouterNext]_vars

\* A sendPushToAll run during which the user agent of subscriber 1 rotates
\* its keys and subscribes again: the request of the run to endpoint 1 has
\* gone out under the old keys and its answer has not been acted upon when
\* /subscribe saves the new ones.  Runs start on first-generation keys, so a
\* row holding the second generation was saved after this run's request.
Race_List ==
    /\ store[1].p256dh # Registration(1, 1).keys.p256dh
    /\ SendPushToAll_List

Race_Resubscribe ==
    /\ tpc[1] \in {"wait", "deact"}
    /\ store' = saveSubscription(store, Registration(1, 1))
    /\ UNCHANGED <<envVars, dataVars, allVars, oneVars>>

RaceNext ==
    \/ \E e \in Endpoints : Run_Subscribe(e)
    \/ \E e \in Endpoints : Run_Unsubscribe(e)
    \/ Race_List
    \/ Race_Resubscribe
    \/ \E e \in Endpoints : ImportKey(e)
    \/ \E e \in Endpoints : SignJwt(e)
    \/ \E e \in Endpoints : EncryptPayload(e)
    \/ \E e \in Endpoints : Fetch(e)
    \/ \E e \in Endpoints : Respond(e)
    \/ \E e \in Endpoints : Deactivate(e)
    \/ \E e \in Endpoints : ReadBody(e)
    \/ SendPushToAll_Return
    \/ SendPushToAll_Done

RaceSpec == Init /\ [][RaceNext]_vars

\* A step of a run that waits for nothing but an await to settle: a store
\* operation, a crypto call, the request or the reading of its body, and
\* the join of the tasks.
RunStep ==
    \/ \E e \in Endpoints : ImportKey(e)
    \/ \E e \in Endpoints : SignJwt(e)
    \/ \E e \in Endpoints : EncryptPayload(e)
    \/ \E e \in Endpoints : Fetch(e)
    \/ \E e \in Endpoints : Respond(e)
    \/ \E e \in Endpoints : Deactivate(e)
    \/ \E e \in Endpoints : ReadBody(e)
    \/ SendPushToAll_Return

\* RunSpec under the assumption that whatever is awaited settles
LiveSpec == Init /\ [][RunNext]_vars /\ WF_vars(RunStep)

\* ---------------------------------------------------------------- helpers
Listed == SeqRange(listed)

\* the subscriber's own delivery was answered 200 or 201
Accepted(e) == outcome[e].kind = "status" /\ outcome[e].status \in {200, 201}

\* ------------------------------------------------------------------- C1
\* C1: fan-out isolation. Once the listing has succeeded, sendPushToAll never
\* rejects, whatever the tasks meet (any status, a thrown exception, a failing
\* deactivation write): it resolves with counts; no task's promise rejects;
\* and a settled task is a success exactly when its own delivery was
\* accepted, whatever the other tasks did or whether they have settled.
C1_FanOutIsolation ==
    /\ listing = "rows" => apc # "rejected"
    /\ \A e \in Endpoints : ret[e] # "rejected"
    /\ \A e \in Listed :
         tpc[e] = "done" => /\ ret[e] \in {"true", "false"}
                            /\ (ret[e] = "true" <=> Accepted(e))
    /\ apc = "resolved" => aResult.kind = "counts"

\* a run resolved in which one subscriber threw, one was answered 410 and
\* one was accepted: {sent: 1, failed: 2}
C1_Witness ==
    /\ apc = "resolved"
    /\ \E e1, e2, e3 \in Listed :
         /\ outcome[e1] = Exception /\ ret[e1] = "false"
         /\ outcome[e2] = Status(410) /\ ret[e2] = "false"
         /\ Accepted(e3) /\ ret[e3] = "true"
    /\ aResult = [kind |-> "counts", sent |-> 1, failed |-> 2]

\* ------------------------------------------------------------------- C2
\* C2: outcome classification. When sendPushToAll resolves, `sent` is the
\* number of listed subscribers whose single request was answered 200 or 201
\* and `failed` the number of those that met a 410, any other status or an
\* exception; reading the response body (or failing to) changes neither.
C2_Classification ==
    apc = "resolved" =>
        /\ aResult.sent =
             Cardinality({e \in Listed : Accepted(e) /\ posts[e] = 1})
        /\ aResult.failed =
             Cardinality({e \in Listed :
                 \/ outcome[e] = Exception
                 \/ outcome[e].kind = "status"
                    /\ outcome[e].status \notin {200, 201}})

\* a run resolved with a 204 (a 2xx that is not accepted) counted as failed
\* next to an accepted 201
C2_Witness ==
    /\ apc = "resolved"
    /\ \E e1, e2 \in Listed :
         /\ outcome[e1] = Status(204) /\ outcome[e2] = Status(201)
         /\ aResult.sent = 1 /\ aResult.failed = Len(listed) - 1

\* ------------------------------------------------------------------- C3
\* C3: when sendPushToAll resolves, sent + failed is the number of rows the
\* listing returned, every row has exactly one result, and an empty listing
\* yields {sent: 0, failed: 0} with no request issued.
C3_CountsCoverListing ==
    apc = "resolved" =>
        /\ aResult.sent + aResult.failed = Len(listed)
        /\ Len(Results) = Len(listed)
        /\ \A i, j \in 1..Len(listed) : listed[i] = listed[j] => i = j
        /\ listed = <<>> =>
             /\ aResult = [kind |-> "counts", sent |-> 0, failed |-> 0]
             /\ \A e \in Endpoints : posts[e] = 0

\* a run over every endpoint resolved with both counts positive
C3_Witness ==
    /\ apc = "resolved"
    /\ Len(listed) = NumEndpoints
    /\ aResult.sent > 0 /\ aResult.failed > 0

\* ------------------------------------------------------------------- C4
\* C4: deactivateSubscription is called by a run only for a subscriber whose
\* request was answered 410, at most once, and under that subscriber's own
\* endpoint; when the run resolves it has been called exactly once for each
\* such subscriber and never for any other endpoint.
C4_DeactivateOnlyGone ==
    /\ \A e \in Endpoints :
         /\ deactCalls[e] <= 1
         /\ deactCalls[e] = 1 => e \in Listed /\ outcome[e] = Status(410)
    /\ apc = "resolved" =>
         \A e \in Endpoints :
            deactCalls[e] = (IF e \in Listed /\ outcome[e] = Status(410) THEN 1 ELSE 0)

\* a run resolved with one subscriber gone (deactivated once) and another
\* failed with a different status (not deactivated)
C4_Witness ==
    /\ apc = "resolved"
    /\ \E e1, e2 \in Listed :
         /\ outcome[e1] = Status(410) /\ deactCalls[e1] = 1
         /\ outcome[e2] = Status(500) /\ deactCalls[e2] = 0

\* ------------------------------------------------------------------- C5
\* C5 (as claimed): every delivery that is answered 410 deactivates the
\* subscriber and reports a failure, both in a task of sendPushToAll and in
\* sendNotificationToSubscription.
C5_GoneDeactivatesOnEveryPath ==
    /\ \A e \in Listed :
         (tpc[e] = "done" /\ outcome[e] = Status(410)) =>
             (deactCalls[e] = 1 /\ ret[e] = "false")
    /\ (opc = "returned" /\ oOutcome = Status(410)) =>
             (oDeact = 1 /\ oResult.success = FALSE)

\* ------------------------------------------------------------------- C6
\* C6 (as claimed): when the lookup finds no row, the outcome is
\* {success: false, status 404, detail "not found"} and nothing was signed
\* or sent.
C6_NotFoundDetailAsClaimed ==
    (opc = "returned" /\ oFound = "null") =>
        /\ oResult = [kind |-> "outcome", success |-> FALSE, status |-> 404,
                      statusText |-> "not found"]
        /\ oSigned = 0 /\ oPosts = 0

\* C6 (amended): when the lookup finds no row, sendNotificationToSubscription
\* returns {success: false, status: 404, statusText: "Subscription not found
\* in DB"}; no key was imported, no token signed, no frame encrypted and no
\* POST issued.
C6_NotFoundOutcome ==
    (opc = "returned" /\ oFound = "null") =>
        /\ oResult = [kind |-> "outcome", success |-> FALSE, status |-> 404,
                      statusText |-> "Subscription not found in DB"]
        /\ oOutcome = NoOutcome
        /\ oSigned = 0 /\ oPosts = 0

\* a call returned for an endpoint that has no record in the table
C6_Witness ==
    /\ opc = "returned" /\ oFound = "null"
    /\ ~store[oEndpoint].present
    /\ oResult.status = 404

\* ------------------------------------------------------------------- C7
\* C7: at most one POST per subscriber in one run of sendPushToAll and in one
\* call of sendNotificationToSubscription; once a delivery has an outcome
\* (a status or an exception) it is past the point where a request is issued.
C7_AtMostOneAttempt ==
    /\ \A e \in Endpoints :
         /\ posts[e] <= 1
         /\ outcome[e] # NoOutcome => tpc[e] \in {"deact", "body", "done"}
    /\ oPosts <= 1
    /\ oOutcome # NoOutcome => opc \in {"body", "returned"}

\* a run resolved after a subscriber answered 500 to its one request while
\* another threw after its one request was sent
C7_Witness ==
    /\ apc = "resolved"
    /\ \E e1, e2 \in Listed :
         /\ outcome[e1] = Status(500) /\ posts[e1] = 1
         /\ outcome[e2] = Exception /\ posts[e2] = 1

\* ------------------------------------------------------------------- C8
\* C8: when sendPushToAll has returned, every listed task has run to its own
\* end (it has an outcome and a boolean result, its deactivation write
\* included) and no task is in flight.
C8_JoinAfterAllSettled ==
    apc \in {"resolved", "rejected"} =>
        \A e \in Endpoints :
            /\ tpc[e] \in {"none", "done"}
            /\ e \in Listed => /\ tpc[e] = "done"
                               /\ ret[e] \in {"true", "false"}
                               /\ outcome[e] # NoOutcome

\* a run resolved after one task threw and a sibling went on to its 410 and
\* its deactivation call
C8_Witness ==
    /\ apc = "resolved"
    /\ \E e1, e2 \in Listed :
         /\ outcome[e1] = Exception /\ posts[e1] = 0
         /\ outcome[e2] = Status(410) /\ deactCalls[e2] = 1

\* ------------------------------------------------------------------- C9
\* C9 (as claimed): a VAPID private key that cannot be imported makes
\* sendPushToAll reject instead of resolving.
C9_KeyFailurePropagates ==
    (~keyOk /\ \E e \in Listed : imported[e] > 0) => apc # "resolved"

\* C9 (amended): a VAPID private key that cannot be imported is a failure of
\* each subscriber's task: sendPushToAll still resolves, with sent = 0 and
\* failed = the number of listed subscribers, nothing is signed or sent, and
\* it rejects only when the listing itself failed.
C9_KeyFailureIsPerSubscriber ==
    ~keyOk =>
        /\ apc = "rejected" => listing = "error"
        /\ \A e \in Endpoints : signed[e] = 0 /\ posts[e] = 0
        /\ apc = "resolved" =>
             /\ aResult = [kind |-> "counts", sent |-> 0, failed |-> Len(listed)]
             /\ \A e \in Listed : outcome[e] = Exception /\ ret[e] = "false"

\* a run over every endpoint resolved although each task's key import failed
C9_Witness ==
    /\ ~keyOk
    /\ apc = "resolved"
    /\ Len(listed) = NumEndpoints
    /\ \A e \in Listed : imported[e] = 1

\* ------------------------------------------------------------------ C10
\* C10: when the listing query fails, sendPushToAll rejects with the error
\* and no task exists: no key imported, no token signed, no request issued,
\* no deactivation call.
C10_ListingFailureRejects ==
    listing = "error" =>
        /\ apc = "rejected"
        /\ aResult = ErrorThrown
        /\ listed = <<>>
        /\ \A e \in Endpoints :
             /\ tpc[e] = "none"
             /\ imported[e] = 0 /\ signed[e] = 0
             /\ posts[e] = 0 /\ deactCalls[e] = 0

\* a run rejected by its listing while the table held active subscribers
C10_Witness ==
    /\ listing = "error"
    /\ apc = "rejected"
    /\ GET_ACTIVE_SUBSCRIPTIONS(store) # {}


\* ------------------------------------------------------------------ C11
\* scheme://host of the URL a request is sent to
OriginOf(url) == url.protocol \o "//" \o url.host

\* C11: every POST carries a token whose aud claim is scheme://host of the
\* URL the POST is sent to; the token is made for the one delivery, so no
\* request carries a token whose audience is the different origin of another
\* subscriber.
C11_AudienceIsOrigin ==
    /\ \A i \in 1..Len(wire) :
         /\ wire[i].aud = OriginOf(wire[i].url)
         /\ \A d \in Endpoints :
              OriginOf(EndpointUrl(d)) # OriginOf(wire[i].url)
                 => wire[i].aud # OriginOf(EndpointUrl(d))
    /\ last.kind = "posted" =>
         /\ last.request.authorization.payload.aud = OriginOf(last.request.url)
         /\ last.request.authorization = last.vapidJwt
         /\ last.request.url = EndpointUrl(last.subscription.endpoint)

\* the same payload was posted to two subscribers on different hosts
C11_Witness ==
    /\ Len(wire) = 2
    /\ wire[1].url.host # wire[2].url.host
    /\ wire[1].aud = "https://fcm.googleapis.com"
    /\ wire[2].aud = "https://updates.push.services.mozilla.com"

\* ------------------------------------------------------------------ C12
\* the token of the latest sendPush call, once createVapidJwt has returned
Minted == last.kind = "posted" \/ (last.kind = "threw" /\ last.threwIn = "encryptPayload")

\* C12: the exp claim of a token is the time of issuance in whole seconds
\* plus 86400, so the token is valid for no more than 24 hours.
C12_ExpIsIssuancePlusDay ==
    Minted =>
        /\ last.vapidJwt.payload.exp = (now \div 1000) + 86400
        /\ last.vapidJwt.payload.exp * 1000 <= now + 86400 * 1000

\* a token issued 999 ms into a second has been sent
C12_Witness ==
    /\ last.kind = "posted"
    /\ now = 999
    /\ last.request.authorization.payload.exp = 86400

\* ------------------------------------------------------------------ C13
\* C13 as stated: "mailto:" is prepended exactly when the subject contains
\* "@" and begins with neither "mailto:" nor "https:".
C13_PrefixHttpsColon ==
    Minted =>
        last.vapidJwt.payload.sub =
            IF /\ includes(contact, "@")
               /\ ~startsWith(contact, MailtoPrefix)
               /\ ~startsWith(contact, <<"h", "t", "t", "p", "s", ":">>)
            THEN MailtoPrefix \o contact
            ELSE contact

\* C13, amended: "mailto:" is prepended exactly when the subject contains "@"
\* and begins with neither "mailto:" nor "https://"; "user@example.com"
\* becomes "mailto:user@example.com", "https://example.com/contact" and
\* "mailto:user@example.com" stay as they are.
C13_SubjectNormalised ==
    Minted =>
        LET sub == last.vapidJwt.payload.sub
            prepended == sub = <<"m", "a", "i", "l", "t", "o", ":">> \o contact
            at == \E i \in 1..Len(contact) : contact[i] = "@"
            begins(prefix) ==
                /\ Len(contact) >= Len(prefix)
                /\ \A i \in 1..Len(prefix) : contact[i] = prefix[i]
        IN  /\ prepended \/ sub = contact
            /\ prepended <=>
                 /\ at
                 /\ ~begins(<<"m", "a", "i", "l", "t", "o", ":">>)
                 /\ ~begins(<<"h", "t", "t", "p", "s", ":", "/", "/">>)
            /\ contact = Address => sub = MailtoPrefix \o Address
            /\ contact = HttpsPrefix \o ContactPage => sub = contact
            /\ contact = MailtoPrefix \o Address => sub = contact

\* a token was sent whose subject is an address behind "https:"
C13_Witness ==
    /\ last.kind = "posted"
    /\ contact = <<"h", "t", "t", "p", "s", ":">> \o Address
    /\ last.request.authorization.payload.sub = MailtoPrefix \o contact


\* ------------------------------------------------------------------ C14
\* C14: every encryptPayload call draws a new salt and generates a new
\* ephemeral key pair: no two frames that were posted share a salt or an
\* ephemeral public key, also when the same payload is encrypted twice for
\* the same subscriber, and the frame of a request is that of no other.
C14_FreshSaltAndKey ==
    /\ \A i \in 1..Len(wire) : \A j \in 1..Len(wire) :
         i # j => /\ wire[i].salt # wire[j].salt
                  /\ wire[i].keyid # wire[j].keyid
    /\ last.kind = "posted" =>
         /\ last.enc.draws = 2
         /\ Len(wire) >= 1
         /\ SubSeq(last.request.body, 1, 16) = wire[Len(wire)].salt
         /\ \A i \in 1..(Len(wire) - 1) :
              SubSeq(last.request.body, 1, 16) # wire[i].salt

\* the same payload has been posted twice to the same subscriber
C14_Witness ==
    /\ Len(wire) = 2
    /\ last.kind = "posted"
    /\ last.subscription = args.subscription
    /\ wire[1].url = wire[2].url


\* ------------------------------------------------------------------ C15
\* C15: in every frame encryptPayload returns, bytes 0..15 are the salt the
\* keys were derived with, bytes 16..19 are 00 00 10 00, byte 20 is 0x41,
\* bytes 21..85 are the ephemeral public key, which begins with 0x04, and
\* the ciphertext starts at offset 86.
C15_FrameLayout ==
    last.kind = "posted" =>
        LET frame == last.request.body
        IN  /\ Len(frame) >= 86
            /\ SubSeq(frame, 1, 16) = last.enc.salt
            /\ SubSeq(frame, 17, 20) = <<0, 0, 16, 0>>
            /\ frame[21] = 65
            /\ SubSeq(frame, 22, 86) = last.enc.ephemeralPublicBytes
            /\ frame[22] = 4
            /\ SubSeq(frame, 87, Len(frame)) = last.enc.encrypted

\* a frame with the second salt and key pair drawn has been posted
C15_Witness ==
    /\ last.kind = "posted"
    /\ Len(wire) = 2
    /\ SubSeq(last.request.body, 1, 16) = wire[2].salt
    /\ SubSeq(last.request.body, 22, 86) = wire[2].keyid
    /\ Len(last.request.body) > 86

\* ------------------------------------------------------------------ C16
\* C16: what is encrypted is the UTF-8 bytes of the payload string followed
\* by the single byte 0x02, for the empty string too, so a frame is
\* 86 + (byte length of the payload + 1) + 16 bytes long.
C16_SingleDelimiter ==
    last.kind = "posted" =>
        LET text == last.payloadString
            input == last.enc.input
            n == Len(input) - 1
        IN  /\ n >= 0
            /\ input[n + 1] = 2
            /\ Len(last.request.body) = 86 + (n + 1) + 16
            /\ Len(last.enc.encrypted) = (n + 1) + 16
            /\ text = <<>> => input = <<2>>
            /\ text = <<104, 105>> => input = <<104, 105, 2>>
            /\ text = <<233>> => input = <<195, 169, 2>>
            /\ text = <<8364, 49>> => input = <<226, 130, 172, 49, 2>>
            /\ text = <<128276>> => input = <<240, 159, 148, 148, 2>>
            /\ (\A i \in 1..Len(text) : text[i] = 97) =>
                 input = [i \in 1..Len(text) |-> 97] \o <<2>>

\* frames for the empty string and for a three-byte character were posted
C16_Witness ==
    /\ last.kind = "posted"
    /\ \/ last.payloadString = <<>> /\ Len(last.request.body) = 103
       \/ last.payloadString = <<8364, 49>> /\ Len(last.request.body) = 107


\* ------------------------------------------------------------------ C17
\* A receiver as RFC 8188 and RFC 8291 describe it, over the same primitives.
RECURSIVE Xor(_, _, _)
Xor(a, b, bits) ==
    IF bits = 0 THEN 0
    ELSE ((a + b) % 2) + 2 * Xor(a \div 2, b \div 2, bits - 1)

\* RFC 8188 2.3: the nonce of record seq (counted from 0) is NONCE xor seq
RecordNonce(nonce, seq) == [nonce EXCEPT ![12] = Xor(@, seq % 256, 8)]

\* AES-GCM decryption: the tag is verified before any plaintext is released
AesGcmDecrypt(key, iv, data) ==
    LET n == Len(data) - 16
        ciphertext == SubSeq(data, 1, n)
    IN  IF n < 0 \/ SubSeq(data, n + 1, n + 16) # GcmTag(key, iv, ciphertext)
        THEN [ok |-> FALSE, bytes |-> <<>>]
        ELSE [ok |-> TRUE,
              bytes |-> [i \in 1..n |->
                            (ciphertext[i] + 256 - KeyStream(key, iv, i)) % 256]]

\* RFC 8188 2: the padding is a delimiter, 0x02 in the last record and 0x01
\* in every other, followed by any number of zero bytes
RECURSIVE Unpad(_, _)
Unpad(bytes, isLast) ==
    IF Len(bytes) = 0 THEN [ok |-> FALSE, bytes |-> <<>>]
    ELSE IF bytes[Len(bytes)] = 0
         THEN Unpad(SubSeq(bytes, 1, Len(bytes) - 1), isLast)
    ELSE IF bytes[Len(bytes)] = (IF isLast THEN 2 ELSE 1)
         THEN [ok |-> TRUE, bytes |-> SubSeq(bytes, 1, Len(bytes) - 1)]
    ELSE [ok |-> FALSE, bytes |-> <<>>]

\* the records from number seq on: each is size bytes long but the last
RECURSIVE DecodeRecords(_, _, _, _, _)
DecodeRecords(body, size, cek, nonce, seq) ==
    LET isLast == Len(body) <= size
        record == SubSeq(body, 1, IF isLast THEN Len(body) ELSE size)
        opened == AesGcmDecrypt(cek, RecordNonce(nonce, seq), record)
        data == Unpad(opened.bytes, isLast)
        rest == DecodeRecords(SubSeq(body, size + 1, Len(body)), size, cek,
                              nonce, seq + 1)
    IN  IF ~opened.ok \/ ~data.ok THEN [ok |-> FALSE, bytes |-> <<>>]
        ELSE IF isLast THEN data
        ELSE IF ~rest.ok THEN rest
        ELSE [ok |-> TRUE, bytes |-> data.bytes \o rest.bytes]

\* what the user agent holding private and authSecret reads from a frame
Decode(frame, private, authSecret) ==
    LET failed == [ok |-> FALSE, bytes |-> <<>>]
        salt == SubSeq(frame, 1, 16)
        size == FromBigEndian(SubSeq(frame, 17, 20))
        idlen == frame[21]
        keyid == SubSeq(frame, 22, 21 + idlen)
        body == SubSeq(frame, 22 + idlen, Len(frame))
        sharedSecret == deriveBitsEcdh(keyid, private)
        ikm == hkdf(authSecret, sharedSecret,
                    InfoPrefix \o PublicKeyOf(private) \o keyid, 32)
        cek == hkdf(salt, ikm, CekInfo, 16)
        nonce == hkdf(salt, ikm, NonceInfo, 12)
    IN  IF Len(frame) < 21 THEN failed
        ELSE IF Len(frame) < 21 + idlen \/ size < 18 THEN failed
        ELSE IF ~importKeyRaw(keyid) \/ Len(body) = 0 THEN failed
        ELSE DecodeRecords(body, size, cek, nonce, 0)

\* the subscription handed to the latest call is the one the user agent of
\* its endpoint registered: its keys decode to that agent's public key and
\* 16-byte auth secret
ValidKeys ==
    LET e == last.subscription.endpoint
        p == base64UrlToArrayBuffer(last.subscription.keys.p256dh)
        a == base64UrlToArrayBuffer(last.subscription.keys.auth)
    IN  /\ p.ok /\ p.bytes = PublicKeyOf(UaPrivate(e))
        /\ a.ok /\ a.bytes = AuthSecret(e)

Received ==
    Decode(last.request.body, UaPrivate(last.subscription.endpoint),
           AuthSecret(last.subscription.endpoint))

\* C17: for any payload and any valid subscriber keys, the receiver reads
\* from the frame exactly the payload that was encrypted.
C17_RoundTrip ==
    (last.kind = "posted" /\ ValidKeys) =>
        /\ Received.ok
        /\ Received.bytes = TextEncoderEncode(last.payloadString)

\* the round trip does hold for every payload of at most 4079 bytes, the
\* longest whose record (payload, delimiter, tag) fits the declared size
C17_RoundTripWithinRecord ==
    (/\ last.kind = "posted" /\ ValidKeys
     /\ Len(last.enc.input) + 16 <= 4096) =>
        /\ Received.ok
        /\ Received.bytes = TextEncoderEncode(last.payloadString)

\* a frame for a payload of 4080 bytes was posted, and the receiver rejects it
C17_RecordTooLong ==
    /\ last.kind = "posted" /\ ValidKeys
    /\ Len(last.enc.input) = 4081
    /\ ~Received.ok


\* ------------------------------------------------------------------ C18
\* every character is one of the base64url alphabet: A-Z a-z 0-9 - _
IsBase64Url(text) ==
    \A i \in 1..Len(text) :
        \/ text[i] \in {"-", "_"}
        \/ \E v \in 1..62 : Base64Alphabet[v] = text[i]

\* the text is base64url and decodes to exactly n bytes
DecodesTo(text, n) ==
    /\ IsBase64Url(text)
    /\ base64UrlToArrayBuffer(text).ok
    /\ Len(base64UrlToArrayBuffer(text).bytes) = n

\* C18: encryptPayload produces no frame when p256dh does not decode to 65
\* bytes, auth does not decode to 16 bytes, or either is not base64url; the
\* subscriber is then counted as failed and no request is sent to it.
C18_MalformedKeysRejected ==
    (/\ last.kind # "none" /\ keyOk
     /\ \/ ~DecodesTo(last.subscription.keys.p256dh, 65)
        \/ ~DecodesTo(last.subscription.keys.auth, 16))
    => /\ last.kind = "threw"
       /\ last.threwIn = "encryptPayload"
       /\ last.returned = "false"

\* what the code does reject: a p256dh that is not a 65-byte point, and keys
\* with a character atob does not accept
C18_MalformedPointRejected ==
    (/\ last.kind # "none" /\ keyOk
     /\ \/ ~base64UrlToArrayBuffer(last.subscription.keys.p256dh).ok
        \/ Len(base64UrlToArrayBuffer(last.subscription.keys.p256dh).bytes) # 65
        \/ ~base64UrlToArrayBuffer(last.subscription.keys.auth).ok)
    => /\ last.kind = "threw"
       /\ last.threwIn = "encryptPayload"
       /\ last.returned = "false"

\* a frame derived from a 15-byte auth secret was posted
C18_ShortAuthPosted ==
    /\ last.kind = "posted"
    /\ DecodesTo(last.subscription.keys.p256dh, 65)
    /\ DecodesTo(last.subscription.keys.auth, 15)


\* ------------------------------------------------------------------ C19
\* what the task for endpoint e holds of its own
TaskLocals(e) ==
    <<tpc[e], outcome[e], ret[e], imported[e], signed[e], posts[e]>>

\* the run's tasks have all returned and sendPushToAll has resolved
RunResolved == apc = "resolved" /\ \A e \in Listed : tpc[e] = "done"

\* the task of e was answered 410
Gone(e) == outcome[e].kind = "status" /\ outcome[e].status = 410

\* while the tasks run, a step that changes what one task holds leaves what
\* every other task holds as it is
C19_StepsAreLocal ==
    \A e \in Endpoints : \A d \in Endpoints :
        (/\ e # d
         /\ apc = "fanout" /\ apc' = "fanout"
         /\ TaskLocals(e)' # TaskLocals(e))
        => TaskLocals(d)' = TaskLocals(d)

\* the listed rows have distinct endpoints, each key is written by its own
\* task only and at most once, writes to two keys commute, and what the run
\* leaves in the table follows from what each task was answered
C19_WritesAreDisjoint ==
    /\ \A i \in 1..Len(listed) : \A j \in 1..Len(listed) :
         i # j => listed[i] # listed[j]
    /\ \A k \in Endpoints :
         /\ deactCalls[k] <= 1
         /\ deactCalls[k] = 1 => (k \in Listed /\ Gone(k))
    /\ \A a \in Listed : \A b \in Listed :
         DEACTIVATE_SUBSCRIPTION(DEACTIVATE_SUBSCRIPTION(store, a), b)
           = DEACTIVATE_SUBSCRIPTION(DEACTIVATE_SUBSCRIPTION(store, b), a)
    /\ RunResolved =>
         \A k \in Endpoints :
            /\ deactCalls[k] = (IF k \in Listed /\ Gone(k) THEN 1 ELSE 0)
            /\ (k \in Listed /\ ~Gone(k)) => store[k].active = 1
            /\ k \notin Listed => ~(store[k].present /\ store[k].active = 1)

Material(row) ==
    [p256dh |-> row.p256dh, auth |-> row.auth,
     expiration_time |-> row.expiration_time]

\* what saveSubscription binds for a registration
Bound(subscription) ==
    [p256dh |-> subscription.keys.p256dh, auth |-> subscription.keys.auth,
     expiration_time |-> subscription.expirationTime]

C21_DeactivateIdempotent ==
    \A e \in Endpoints :
        LET once == DEACTIVATE_SUBSCRIPTION(store, e)
            twice == DEACTIVATE_SUBSCRIPTION(once, e)
        IN  /\ twice = once
            /\ GET_ACTIVE_SUBSCRIPTIONS(twice) = GET_ACTIVE_SUBSCRIPTIONS(once)
            /\ \A d \in Endpoints :
                 getSubscriptionByEndpoint(twice, d)
                     = getSubscriptionByEndpoint(once, d)
            /\ \A d \in Endpoints \ {e} : once[d] = store[d]
            /\ GET_ACTIVE_SUBSCRIPTIONS(once) = GET_ACTIVE_SUBSCRIPTIONS(store) \ {e}
            /\ ~store[e].present => once = store

\* a table with a row already deactivated, an active row and an endpoint
\* that has no row
C21_Witness ==
    /\ \E e \in Endpoints : store[e].present /\ store[e].active = 0
    /\ \E e \in Endpoints : store[e].present /\ store[e].active = 1
    /\ \E e \in Endpoints : ~store[e].present


\* ------------------------------------------------------------------ C22
\* /test has answered with counts and the call it made has not been cleared
TestReported ==
    /\ http.phase = "settled"
    /\ http.handler = "handleTest"
    /\ http.settled.kind = "response"
    /\ apc = "resolved" \/ opc = "returned"

\* the subscriptions that were active when the request came in: those still
\* active and those the call has deactivated since
ActiveAtRequest ==
    GET_ACTIVE_SUBSCRIPTIONS(store) \cup {e \in Endpoints : deactCalls[e] > 0}

C22_WitnessAll ==
    /\ TestReported
    /\ http.target = 0
    /\ Cardinality(ActiveAtRequest) >= 2
    /\ http.settled.body.sent >= 1
    /\ http.settled.body.failed >= 1


\* ------------------------------------------------------------------ C23
\* the row of the endpoint is there and its flag is cleared
Deactivated(db, e) == db[e].present /\ db[e].active = 0

\* a sendPushToAll call that starts now takes no deactivated row into its
\* listing and starts no task for it
C23_ListingSkipsDeactivated ==
    (apc = "idle" /\ apc' = "fanout") =>
        \A e \in Endpoints :
            Deactivated(store, e) =>
                /\ e \notin SeqRange(listed')
                /\ tpc'[e] = "none"
                /\ ret'[e] = "none"

\* a sendNotificationToSubscription call that starts now for a deactivated
\* endpoint returns the 404 value at once, unless the lookup itself failed
C23_LookupSkipsDeactivated ==
    (opc = "idle" /\ opc' # "idle" /\ Deactivated(store, oEndpoint')) =>
        /\ opc' \in {"returned", "rejected"}
        /\ opc' = "returned" =>
              /\ oFound' = "null"
              /\ oResult'.status = 404 /\ ~oResult'.success
        /\ oPosts' = 0 /\ oSigned' = 0

\* a flag that was cleared is set again by saveSubscription only
C23_OnlySaveReactivates ==
    \A e \in Endpoints :
        (Deactivated(store, e) /\ store'[e].active = 1) =>
            store' = saveSubscription(store, Registration(e, 0))

\* requests go to listed rows only, a call that found no row has sent
\* nothing, and /stats counts the rows that are there less the deactivated
C23_NoRequestWithoutListing ==
    /\ \A e \in Endpoints :
         (posts[e] > 0 \/ tpc[e] # "none") => e \in Listed
    /\ oFound = "null" => (oPosts = 0 /\ oSigned = 0 /\ oResult.status = 404)
    /\ handleStats(store, TRUE).body.active_subscriptions
           = Cardinality({e \in Endpoints : store[e].present})
               - Cardinality({e \in Endpoints : Deactivated(store, e)})

\* C23: once an endpoint has been deactivated, by a 410 or by /unsubscribe,
\* no sendPushToAll that starts later sends to it, a
\* sendNotificationToSubscription for it returns the 404 outcome without a
\* request, and /stats does not count it, until a saveSubscription for the
\* endpoint sets it active again.
C23_DeactivatedIsSkipped ==
    /\ [](C23_NoRequestWithoutListing)
    /\ [][/\ C23_ListingSkipsDeactivated
          /\ C23_LookupSkipsDeactivated
          /\ C23_OnlySaveReactivates]_vars

\* a run is sending to the rows it listed while a row deactivated by an
\* earlier run's 410 is left out
C23_Witness ==
    /\ apc = "fanout"
    /\ \E e \in Endpoints :
         /\ Deactivated(store, e)
         /\ e \notin Listed
         /\ deactCalls[e] = 0
         /\ \E d \in Listed : posts[d] = 1
         /\ handleStats(store, TRUE).body.active_subscriptions
                < Cardinality({d \in Endpoints : store[d].present})


\* ------------------------------------------------------------------ C24
\* the row of endpoint 1 holds the keys saved during the run
SavedDuringRun == store[1].present /\ Material(store[1]) = Bound(Registration(1, 1))

\* C24: a subscription that saveSubscription wrote for an endpoint while a
\* run was under way stays active until it is unsubscribed or a push sent
\* after the save is answered 410; the 410 that answers the request sent
\* before the save does not deactivate it.  The run sends endpoint 1 one
\* request, before the save, so only /unsubscribe may clear the flag.
C24_StaleGoneSparesNewSubscription ==
    [][(SavedDuringRun /\ store[1].active = 1 /\ store'[1].active = 0)
          => Run_Unsubscribe(1)]_vars

\* the new subscription, deactivated by the answer to the old request
C24_StaleGoneDeactivated ==
    /\ SavedDuringRun
    /\ store[1].active = 0
    /\ apc = "fanout"
    /\ posts[1] = 1 /\ deactCalls[1] = 1
    /\ outcome[1] = Status(410)

\* what the code does keep: a save during the run is lost to nothing but
\* the deactivation of the task of that endpoint
C24_OnlyOwnTaskDeactivates ==
    [][(SavedDuringRun /\ store[1].active = 1 /\ store'[1].active = 0)
          => (Run_Unsubscribe(1) \/ Deactivate(1))]_vars


\* ------------------------------------------------------------------ C25
\* C25: handleRequest always resolves to a response and never rejects; when
\* a handler throws or its promise rejects, the response has status 500 and
\* its JSON body carries the error message.
C25_AlwaysAResponse ==
    http.phase = "settled" =>
        /\ http.settled.kind = "response"
        /\ http.settled.status = 500 => http.settled.body.error # ""

\* /subscribe whose store write failed: the promise of handleRequest rejected
C25_SubscribeRejected ==
    /\ http.phase = "settled"
    /\ http.handler = "handleSubscribe"
    /\ http.target # 0
    /\ http.settled.kind = "rejected"

\* the legacy entry, which awaits inside its try block, does answer every
\* failure of a handler with status 500 and the message
C25_LegacyEntryAnswers ==
    http.phase = "settled" =>
        /\ fetch(http.settled).kind = "response"
        /\ http.settled.kind = "rejected" =>
              /\ fetch(http.settled).status = 500
              /\ fetch(http.settled).body.error = http.settled.body.error
              /\ handleRequestAwait(http.settled) = fetch(http.settled)


\* ------------------------------------------------------------------ C26
\* C26: when the lookup has found the row, sendNotificationToSubscription
\* does not reject: an exception while signing, encrypting or sending gives
\* {success: false, status: 500, statusText: the error message}; otherwise
\* the returned status is the status of the response and success holds
\* exactly for 200 and 201.  Only a failing lookup rejects the call.
C26_OnlyLookupFailurePropagates ==
    /\ opc = "rejected" => (oFound = "none" /\ oSigned = 0 /\ oPosts = 0)
    /\ oFound = "row" => opc # "rejected"
    /\ (oFound = "row" /\ opc = "returned") =>
          /\ oResult.kind = "outcome"
          /\ oOutcome.kind \in {"exc", "status"}
          /\ oOutcome.kind = "exc" =>
                /\ ~oResult.success
                /\ oResult.status = 500
                /\ oResult.statusText = "error.message"
          /\ oOutcome.kind = "status" =>
                /\ oResult.status = oOutcome.status
                /\ oResult.success <=> oOutcome.status \in {200, 201}

\* the request went out and the call then threw: it returned the 500 value
C26_Witness ==
    /\ oFound = "row"
    /\ opc = "returned"
    /\ oOutcome = Exception
    /\ oSigned = 1 /\ oPosts = 1
    /\ oResult.status = 500


\* ------------------------------------------------------------------ C27
\* where a task stands among the steps of sendPush
Stage(pc) ==
    CASE pc = "none" -> 0
      [] pc = "import" -> 1
      [] pc = "sign" -> 2
      [] pc = "encrypt" -> 3
      [] pc = "post" -> 4
      [] pc \in {"wait", "deact", "body"} -> 5
      [] pc = "done" -> 6

\* the steps done so far are those before the task's position, and a
\* request is out only after the key was imported, the token signed and the
\* payload encrypted; a task that failed before its request has sent
\* nothing and deactivated nothing
C27_StepsBeforeRequest ==
    /\ \A e \in Endpoints :
         /\ Stage(tpc[e]) \in 2..5 => (imported[e] = 1 /\ keyOk)
         /\ Stage(tpc[e]) \in 3..5 => signed[e] = 1
         /\ Stage(tpc[e]) \in 1..4 => posts[e] = 0
         /\ Stage(tpc[e]) = 5 => posts[e] = 1
         /\ posts[e] > 0 => (imported[e] = 1 /\ keyOk /\ signed[e] = 1)
         /\ signed[e] > 0 => (imported[e] = 1 /\ keyOk)
         /\ (tpc[e] = "done" /\ posts[e] = 0) =>
               /\ outcome[e] = Exception
               /\ deactCalls[e] = 0
               /\ ret[e] = "false"
         /\ deactCalls[e] > 0 => posts[e] = 1
    /\ oPosts > 0 => (oSigned = 1 /\ keyOk)
    /\ oSigned > 0 => keyOk

\* up to its request a task moves one step at a time, or leaves by the
\* catch block; after it, it handles the answer
C27_OneStepAtATime ==
    \A e \in Endpoints :
        (tpc'[e] # tpc[e] /\ tpc[e] # "none" /\ tpc'[e] # "none") =>
            \/ Stage(tpc'[e]) = Stage(tpc[e]) + 1
            \/ tpc[e] = "wait" /\ tpc'[e] \in {"deact", "body"}
            \/ tpc'[e] = "done"

\* C27: within one delivery the audience is derived, the private key
\* imported, the token signed and the payload encrypted before the POST is
\* issued; when one of them fails for a subscriber, no request goes to that
\* subscriber's endpoint and it is not deactivated.
C27_OrderedDelivery ==
    [](C27_StepsBeforeRequest) /\ [][C27_OneStepAtATime]_vars

\* one task failed after signing and sent nothing, while another sent its
\* request, was answered 410 and deactivated its row
C27_Witness ==
    \E e \in Listed : \E d \in Listed :
        /\ tpc[e] = "done" /\ outcome[e] = Exception
        /\ signed[e] = 1 /\ posts[e] = 0 /\ deactCalls[e] = 0
        /\ store[e].active = 1
        /\ posts[d] = 1 /\ outcome[d] = Status(410) /\ deactCalls[d] = 1


\* ------------------------------------------------------------------ C28
\* what the delivery to e met in the concurrent run; a failure after the
\* response (in deactivateSubscription or result.text()) is not kept by
\* the run, so it is passed in
MetInRun(e, late) ==
    IF imported[e] = 0 THEN Met("getAudience", 0)
    ELSE IF ~keyOk THEN Met("importVapidPrivateKey", 0)
    ELSE IF signed[e] = 0 THEN Met("createVapidJwt", 0)
    ELSE IF posts[e] = 0 THEN Met("encryptPayload", 0)
    ELSE IF outcome[e] = Exception THEN Met("fetch", 0)
    ELSE Met(IF late /\ outcome[e].status \notin {200, 201}
             THEN "afterResponse" ELSE "none",
             outcome[e].status)

\* C28: the concurrent sendPushToAll and the legacy sequential one are
\* observationally equivalent.  Whenever the concurrent run has settled, in
\* whatever order its tasks ran, the sequential loop given the same rows and
\* the same per-subscriber outcomes returns the same counts, sends requests
\* to the same endpoints and deactivates the same endpoints; and both
\* reject exactly when the listing fails.
C28_SameAsSequential ==
    /\ apc = "resolved" =>
         \A late \in [Listed -> BOOLEAN] :
            LET legacy == LegacySendPushToAll(TRUE, listed,
                              [e \in Listed |-> MetInRun(e, late[e])])
            IN  /\ aResult.kind = legacy.kind
                /\ aResult.sent = legacy.sent
                /\ aResult.failed = legacy.failed
                /\ {e \in Endpoints : posts[e] > 0} = legacy.requests
                /\ {e \in Endpoints : deactCalls[e] > 0} = legacy.deactivated
    /\ apc = "rejected" =>
         /\ listing = "error"
         /\ aResult.kind = LegacySendPushToAll(FALSE, <<>>, <<>>).kind
    /\ listing = "error" => apc = "rejected"

\* a settled run of three: one accepted, one gone and deactivated, one that
\* threw before its request
C28_Witness ==
    /\ apc = "resolved"
    /\ aResult.sent = 1 /\ aResult.failed = 2
    /\ \E e \in Listed : \E d \in Listed :
         /\ outcome[e] = Status(410) /\ deactCalls[e] = 1
         /\ outcome[d] = Exception /\ posts[d] = 0


\* ------------------------------------------------------------------ C29
\* C29: if the store operations and every outbound request eventually
\* settle, a sendPushToAll call that has started its tasks eventually
\* returns its counts (or rejects); the dispatcher has no timeout and no
\* cancellation step, and none is needed.
C29_RunReturns ==
    (apc = "fanout") ~> (apc \in {"resolved", "rejected"})

\* a run over three subscribers has returned its counts, each task having
\* been through its awaits
C29_Witness ==
    /\ apc = "resolved"
    /\ aResult.sent + aResult.failed >= 3
    /\ \E e \in Listed : posts[e] = 1 /\ deactCalls[e] = 1
    /\ \E e \in Listed : outcome[e] = Status(500)


\* ------------------------------------------------------------------ C30
\* the record size the header of the posted frame declares (bytes 17..20)
DeclaredRecordSize == FromBigEndian(SubSeq(last.request.body, 17, 20))

\* the one record of the posted frame: what follows the 86-byte header
PostedRecord == SubSeq(last.request.body, 87, Len(last.request.body))

\* C30: for every plaintext encryptPayload accepts, the single record it
\* emits (plaintext, one delimiter byte, 16-byte tag) is no longer than the
\* record size of 4096 that the frame header declares.
C30_RecordWithinDeclaredSize ==
    last.kind = "posted" =>
        /\ DeclaredRecordSize = RecordSize
        /\ Len(PostedRecord) <= DeclaredRecordSize

\* the record is always the payload bytes, the delimiter and the tag, and
\* the header always declares 4096, whatever the length
C30_RecordLength ==
    last.kind = "posted" =>
        /\ DeclaredRecordSize = RecordSize
        /\ Len(PostedRecord)
               = Len(TextEncoderEncode(last.payloadString)) + 1 + 16

\* a payload of 4080 bytes was accepted and posted in a record of 4097
C30_OversizedRecordPosted ==
    /\ last.kind = "posted"
    /\ Len(TextEncoderEncode(last.payloadString)) = RecordSize - 16
    /\ Len(PostedRecord) = RecordSize + 1

====
